---- MODULE Spec2Model ----
(***************************************************************************)
(* Session / RPC orchestration engine of the backend:                      *)
(*   backend/src/server.ts  ConnectionHandler (one WebSocket session)      *)
(*   backend/src/agent.ts   runAgent (tool-use loop, async generator)      *)
(*   backend/src/vault-tools.ts executeVaultTool                           *)
(*                                                                         *)
(* Node runs one macrotask (a socket event, a timer, a backend chunk) to   *)
(* completion together with every microtask it queues, so one action here  *)
(* is one macrotask: the handler plus the continuation of every run whose  *)
(* awaited promise the handler settled, up to that run's next suspension.  *)
(***************************************************************************)
EXTENDS Integers, Sequences, FiniteSets, TLC

(* ---- bounds of the model ---- *)
MaxRuns == 2          \* handlePrompt invocations per session
MaxDeltas == 1        \* text fragments the backend streams in the session
MaxTools == 1         \* tool calls the backend announces in the session
MaxToolRounds == 1    \* streams the backend ends with stop reason tool_use
MaxSkills == 0        \* skill files the vault_glob answers of the session name
MaxSdkMessages == 3   \* messages the SDK query stream delivers to one run
MaxBlocks == 2        \* tool_use blocks of one assistant message
TickMs == 15000       \* granularity of the clock, in ms
ClockMs == 15000      \* granularity of the keep-alive clock, in ms
WatchMs == 300000     \* granularity of the clock of the inactivity watchdog, in ms
MaxPrompts == 2       \* prompts the client sends
MaxReplies == 2       \* messages the server writes per prompt of the client
MaxConnectFailures == 4  \* connection attempts of the client that fail
MaxReopens == 1       \* connection attempts of the client that succeed
MaxStreams == 2       \* response generators the chat view creates
MaxMessages == 2      \* response message lists one generator publishes
MaxRecords == 6       \* recordBefore calls
MaxReverts == 2       \* revert calls
SmallVersions == 2    \* a maxVersions other than the default

(* ---- program constants ---- *)
RPC_TIMEOUT == 30000
MAX_ITERATIONS == 10
INACTIVITY_TIMEOUT_MS == 600000   \* part_000: 10 minutes of no activity
LIVENESS_WINDOW == 90000      \* checkAlive: inactiveMs > 90000
HEARTBEAT_INTERVAL == 30000   \* startServer: setInterval(..., 30000)
UNAUTHORIZED == 4001          \* ws.close(4001, 'Unauthorized')
AUTH_TOKEN == "dev-token"
maxReconnectAttempts == 5
reconnectDelay == 1000
NORMAL_CLOSURE == 1000
DefaultMaxVersions == 5

Ids == {"r1", "r2"}                      \* caller-supplied request ids
RunIx == 1..MaxRuns                      \* handlePrompt invocations, in arrival order
VaultTool == "vault_list"                \* a tool executeVaultTool routes to the bridge
McpTool == "search_cookbooks"            \* a tool mcpClientManager.hasTool() owns
ToolNames == {VaultTool, McpTool}
Cancelled == <<"Cancelled by user">>     \* result of the agent's cancellation event
Empty == <<>>                            \* the empty string ''
NoOp == <<0, 0>>                         \* an op id sendRpc never issued

VARIABLES
  wsState,         \* ws.readyState: "OPEN" or "CLOSED"
  pendingRpcs,     \* ConnectionHandler.pendingRpcs: op id -> [method, run]
  timers,          \* armed setTimeout handles of sendRpc: op id -> ms elapsed since armed
  activeRequests,  \* ConnectionHandler.activeRequests: request id -> AbortController (= run index)
  aborted,         \* AbortController.signal.aborted, per handlePrompt invocation
  runs,            \* per handlePrompt invocation: position in handlePrompt/runAgent and locals
  wire,            \* per handlePrompt invocation: messages it wrote to the socket, in order
  promises,        \* per op id: the promise sendRpc returned: [method, run, settles]
  nextRun,         \* next handlePrompt invocation index
  budget,          \* what the environment of this session may still do
  sdk,             \* the run of the SDK-based runAgent: its locals and the events it yielded
  client,          \* the plugin's WebSocketClient: the handlers it holds per request id,
                   \* the handler calls it made, and what it may still send and receive
  peer,            \* a second connection of the same process: its socket, the state of its ConnectionHandler, and the frame it handled last
  link,            \* the connection of the plugin's WebSocketClient: its socket, its reconnection counter and the timers attemptReconnect armed
  streams,         \* the plugin's StreamStateManager, the response generators of the chat view and the view's references to its active stream
  edits,           \* the plugin's EditHistory singleton, the files of the vault it reverts, and the revert that is awaiting the vault
  server,          \* startServer's view of the connection: its token, whether a
                   \* ConnectionHandler is attached and listed in connections, the close
                   \* code the server sent, Date.now() - lastActivity, and the time since
                   \* the last run of the heartbeat interval
  last             \* the macrotask that produced this state: what it was, the promises it
                   \* settled, and what it wrote to the socket on behalf of no run

vars == <<wsState, pendingRpcs, timers, activeRequests, aborted, runs, wire,
          promises, nextRun, budget, sdk, client, peer, link, streams, edits, server, last>>

(* The state of one ConnectionHandler and of the runs it started. *)
sessionVars == <<wsState, pendingRpcs, timers, activeRequests, aborted, runs, wire,
                 promises, nextRun, budget, server, last>>

(* The mutable state the handlers and the generator touch, as one record;   *)
(* log and out collect what one macrotask settles and writes, ev the events *)
(* the agent of each run yields during it.                                  *)
St == [pendingRpcs |-> pendingRpcs, timers |-> timers, activeRequests |-> activeRequests,
       aborted |-> aborted, runs |-> runs, wire |-> wire, promises |-> promises,
       log |-> {}, out |-> <<>>, ev |-> [i \in RunIx |-> <<>>]]

Commit(S, op, how) ==
  /\ pendingRpcs' = S.pendingRpcs
  /\ timers' = S.timers
  /\ activeRequests' = S.activeRequests
  /\ aborted' = S.aborted
  /\ runs' = S.runs
  /\ wire' = S.wire
  /\ promises' = S.promises
  /\ last' = [op |-> op, how |-> how, settled |-> S.log, wrote |-> S.out,
              yielded |-> S.ev]
  /\ UNCHANGED <<sdk, client, peer, link, streams, edits>>

Drop(f, k) == [x \in DOMAIN f \ {k} |-> f[x]]
Put(f, k, v) == (k :> v) @@ Drop(f, k)

(* The SDK-based runAgent before it is called: pendingTools and eventQueue   *)
(* are its locals, yielded the events its generator has produced so far,    *)
(* executing the vault tool handlers the SDK has invoked and not finished.  *)
(* A WebSocketClient after connect() succeeded: config is set, ws is OPEN.   *)
(* timers: the delays of the setTimeout calls of attemptReconnect that have *)
(* not fired; emitted: how often 'MAX_RECONNECTS' was emitted; scheduled:   *)
(* the timers the last step armed; fails, opens: what the network may still *)
(* do to connection attempts.                                               *)
ConnectedLink == [config |-> TRUE, ws |-> "OPEN", isConnecting |-> FALSE,
                  reconnectAttempts |-> 0, timers |-> <<>>, emitted |-> 0,
                  scheduled |-> 0, fails |-> MaxConnectFailures, opens |-> MaxReopens]

Paths == {"p", "q"}                     \* vault paths
Contents == {"", "x"}                   \* file contents; "" is the snapshot of a new file
ActivityIds == {"a1", "a2"}             \* activity ids

(* editHistoryInstance before it is created.  snapshots: the Map, its keys  *)
(* in insertion order in keys; files: the paths the vault has a file at;    *)
(* pending: the revert calls suspended at their await, each with the array  *)
(* it read from the Map (held: whether the Map still holds that array       *)
(* object); returned: what the last finished revert returned; recorded:     *)
(* every snapshot recordBefore was given per path, n their number.          *)
NoEditHistory ==
  [created |-> FALSE, maxVersions |-> 0, snapshots |-> <<>>, keys |-> <<>>,
   files |-> Paths, pending |-> <<>>, returned |-> "-", prev |-> <<>>, target |-> <<>>,
   recorded |-> [path \in Paths |-> <<>>], n |-> 0, reverts |-> 0, op |-> "-"]

Gens == 1..MaxStreams                   \* the ResponseGenerator objects
Convs == {"c1", "c2"}                   \* conversation ids

(* A new StreamStateManager and a chat view that has submitted nothing.     *)
(* activeStream: <<>> for null, else the one ActiveStreamState; subs[g]:    *)
(* the subscriptions the manager made on generator g and has not            *)
(* unsubscribed; returned: what the last attachStream returned (<<>> for    *)
(* null); handed: how often the stream of the last detachStream was handed  *)
(* back.  gens[g]: the conversation of generator g, where its mutation is   *)
(* (new, running, aborted, settled) and the length of the list it last      *)
(* published.  ref: activeResponseGeneratorRef (0 for null).                *)
IdleStreams ==
  [activeStream |-> <<>>, subs |-> [g \in Gens |-> 0], returned |-> <<>>, handed |-> 0,
   gens |-> [g \in Gens |-> [conv |-> "-", status |-> "new", messages |-> 0]],
   ref |-> 0, op |-> "-"]

(* A connected WebSocketClient that has sent no prompt: activeHandlers is    *)
(* the set of request ids it holds handlers for, calls the handler calls it *)
(* made so far, terminals how many complete or error messages it received   *)
(* per request id, prompts the number of ids it issued, left the number of  *)
(* server messages still to come.                                           *)
IdleClient == [activeHandlers |-> {}, calls |-> <<>>, terminals |-> <<>>,
               prompts |-> 0, left |-> 0]

(* elapsed is Date.now() - activity.lastTs, activityCheck whether the       *)
(* interval of the watchdog is armed, abort what aborted abortController,   *)
(* exit the way the generator was left.                                     *)
IdleSdk == [pc |-> "idle", pendingTools |-> <<>>, eventQueue |-> <<>>,
            executing |-> <<>>, yielded |-> <<>>, left |-> 0,
            elapsed |-> 0, activityCheck |-> FALSE, abort |-> "none", exit |-> "none"]

IdleRun == [id |-> "-", pc |-> "idle", iteration |-> 0, continueLoop |-> TRUE,
            currentText |-> Empty, toolUses |-> <<>>, toolIdx |-> 0,
            skillsLeft |-> 0, rpcs |-> 0, messages |-> <<>>, toolResults |-> <<>>]

(* The fields of a new ConnectionHandler (server.ts:42-44). *)
NewHandler ==
  [pendingRpcs |-> <<>>, timers |-> <<>>, activeRequests |-> <<>>,
   aborted |-> [i \in RunIx |-> FALSE], runs |-> [i \in RunIx |-> IdleRun],
   wire |-> [i \in RunIx |-> <<>>], promises |-> <<>>,
   log |-> {}, out |-> <<>>, ev |-> [i \in RunIx |-> <<>>]]

(* No second connection yet; S is the state of its ConnectionHandler, shaped *)
(* like St, once it is accepted.                                            *)
NoPeer == [ws |-> "NONE", S |-> NewHandler, last |-> [op |-> "-", id |-> "-", rpc |-> NoOp]]

(* A send that queues a run's message ahead of what was written before. *)
sendFirst(ws, S, i, msg) ==
  IF ws # "OPEN" THEN S
  ELSE IF i = 0 THEN [S EXCEPT !.out = Append(@, msg)]
  ELSE [S EXCEPT !.wire[i] = <<msg>> \o @]

(* ConnectionHandler.send (server.ts:296-300): written only while the socket *)
(* is OPEN.  i = 0: a message that belongs to no run.                        *)
send(ws, S, i, msg) ==
  IF ws # "OPEN" THEN S
  ELSE IF i = 0 THEN [S EXCEPT !.out = Append(@, msg)]
  ELSE [S EXCEPT !.wire[i] = Append(@, msg)]

(* An id generator that numbers the calls of a run from its phase: a run     *)
(* gets the same id again for its next call.                                *)
randomUUIDRepeats(S, i) == <<i, 1>>

(* randomUUID(): an id no earlier call returned; here the pair of the calling *)
(* run and the number of its call.                                            *)
randomUUID(S, i) == <<i, S.runs[i].rpcs + 1>>

(* ConnectionHandler.sendRpc, called by run i: fresh id, timer armed, entry     *)
(* stored, rpc_request written; the caller then awaits the promise at pc site.  *)
sendRpc(ws, S, i, method, site) ==
  LET id == randomUUID(S, i)
      S1 == [S EXCEPT !.timers = Put(@, id, 0),
                      !.pendingRpcs = Put(@, id, [method |-> method, run |-> i]),
                      !.promises = Put(@, id, [method |-> method, run |-> i, settles |-> 0]),
                      !.runs[i].rpcs = @ + 1,
                      !.runs[i].pc = site]
  IN send(ws, S1, i, [type |-> "rpc_request", id |-> id, method |-> method])

(* The switch of handlePrompt (server.ts:124-170): an agent event as the wire *)
(* message tagged with the request id of the prompt.                          *)
toWire(id, ev) ==
  CASE ev.type = "text_delta" -> [type |-> "text_delta", requestId |-> id, text |-> ev.text]
    [] ev.type = "tool_start" -> [type |-> "tool_start", requestId |-> id, toolName |-> ev.name]
    [] ev.type = "tool_end" -> [type |-> "tool_end", requestId |-> id, toolName |-> ev.name,
                                result |-> ev.result]
    [] ev.type = "thinking" -> [type |-> "thinking", requestId |-> id, text |-> ev.text]
    [] ev.type = "complete" -> [type |-> "complete", requestId |-> id, result |-> ev.result]
    [] ev.type = "error" -> [type |-> "error", requestId |-> id, code |-> ev.code]

(* A finally block that only deletes the entry. *)
finallyBlockSilent(ws, S, i) ==
  [S EXCEPT !.activeRequests = Drop(@, S.runs[i].id),
            !.runs[i] = [IdleRun EXCEPT !.id = S.runs[i].id, !.pc = "done"]]

(* The finally block of handlePrompt: the safety-net complete, then the entry *)
(* of this request id is deleted from activeRequests.                         *)
finallyBlock(ws, S, i) ==
  LET id == S.runs[i].id
      S1 == send(ws, S, i, [type |-> "complete", requestId |-> id, result |-> Empty])
  IN [S1 EXCEPT !.activeRequests = Drop(@, id),
                !.runs[i] = [IdleRun EXCEPT !.id = id, !.pc = "done"]]

(* The catch block of handlePrompt: the generator threw. *)
catchBlock(ws, S, i) ==
  finallyBlock(ws, send(ws, S, i, [type |-> "error", requestId |-> S.runs[i].id,
                                   code |-> "AGENT_ERROR"]), i)

(* One turn of `for await (const event of agentRunner(...))`: the generator   *)
(* yields ev; handlePrompt breaks out (to finally) when its own controller is *)
(* aborted, and otherwise writes the event.                                   *)
yield(ws, S, i, ev) ==
  LET S0 == [S EXCEPT !.ev[i] = Append(@, ev)] IN
  IF S.aborted[i] THEN finallyBlock(ws, S0, i)
  ELSE send(ws, S0, i, toWire(S.runs[i].id, ev))

Stopped(S, i) == S.runs[i].pc = "done"

(* The generator returns: the for-await loop ends and finally runs. *)
genReturn(ws, S, i) == IF Stopped(S, i) THEN S ELSE finallyBlock(ws, S, i)

cancelledEvent == [type |-> "complete", result |-> Cancelled]

(* agent.ts:358-364, the code after the while loop. *)
afterLoop(ws, S, i) ==
  IF S.runs[i].iteration >= MAX_ITERATIONS
  THEN genReturn(ws, yield(ws, S, i, [type |-> "error", code |-> "MAX_ITERATIONS"]), i)
  ELSE genReturn(ws, S, i)

(* A loop head whose bound is off by one: iteration <= MAX_ITERATIONS. *)
loopHeadOneMore(ws, S, i) ==
  LET r == S.runs[i] IN
  IF r.continueLoop /\ r.iteration <= MAX_ITERATIONS
  THEN IF S.aborted[i]
       THEN genReturn(ws, yield(ws, S, i, cancelledEvent), i)
       ELSE [S EXCEPT !.runs[i].iteration = @ + 1, !.runs[i].pc = "streaming",
                      !.runs[i].currentText = Empty, !.runs[i].toolUses = <<>>,
                      !.runs[i].toolIdx = 0]
  ELSE afterLoop(ws, S, i)

(* agent.ts:209-227, the head of the while loop up to the open stream. *)
loopHead(ws, S, i) ==
  LET r == S.runs[i] IN
  IF r.continueLoop /\ r.iteration < MAX_ITERATIONS
  THEN IF S.aborted[i]
       THEN genReturn(ws, yield(ws, S, i, cancelledEvent), i)
       ELSE [S EXCEPT !.runs[i].iteration = @ + 1, !.runs[i].pc = "streaming",
                      !.runs[i].currentText = Empty, !.runs[i].toolUses = <<>>,
                      !.runs[i].toolIdx = 0]
  ELSE afterLoop(ws, S, i)

(* The id the backend gave the k-th tool_use block of the response of        *)
(* iteration it: ids differ between blocks and between responses.           *)
ToolUseId(it, k) == <<it, k>>

(* agent.ts:289-290: the assistant message, with its tool_use blocks, is     *)
(* added to the history; then the batch starts with no results.             *)
pushAssistant(S, i) ==
  LET r == S.runs[i] IN
  [S EXCEPT !.runs[i].messages =
              Append(@, [role |-> "assistant",
                         content |-> [k \in 1..Len(r.toolUses) |->
                                        [type |-> "tool_use", id |-> ToolUseId(r.iteration, k),
                                         name |-> r.toolUses[k]]]]),
            !.runs[i].toolResults = <<>>]

(* A batch that records every result under the id of its first tool. *)
pushToolResultFirstId(S, i, result) ==
  [S EXCEPT !.runs[i].toolResults =
              Append(@, [type |-> "tool_result",
                         tool_use_id |-> ToolUseId(S.runs[i].iteration, 1),
                         content |-> result.content, is_error |-> result.isError])]

(* agent.ts:320-325 *)
pushToolResult(S, i, result) ==
  [S EXCEPT !.runs[i].toolResults =
              Append(@, [type |-> "tool_result",
                         tool_use_id |-> ToolUseId(S.runs[i].iteration, S.runs[i].toolIdx),
                         content |-> result.content, is_error |-> result.isError])]

(* agent.ts:328-332, after the last tool of the batch *)
endBatch(S, i) ==
  [S EXCEPT !.runs[i].messages = Append(@, [role |-> "user", content |-> S.runs[i].toolResults]),
            !.runs[i].continueLoop = TRUE]

(* A tool loop that reports a tool as finished before it awaits its result. *)
toolLoopEager(ws, S, i) ==
  LET r == S.runs[i] IN
  IF r.toolIdx > Len(r.toolUses)
  THEN loopHead(ws, endBatch(S, i), i)
  ELSE IF S.aborted[i]
  THEN genReturn(ws, yield(ws, S, i, cancelledEvent), i)
  ELSE LET name == r.toolUses[r.toolIdx]
           S1 == yield(ws, yield(ws, S, i, [type |-> "tool_start", name |-> name]), i,
                       [type |-> "tool_end", name |-> name, result |-> Empty])
       IN IF name = McpTool
          THEN [S1 EXCEPT !.runs[i].pc = "tool_mcp"]
          ELSE sendRpc(ws, S1, i, name, "tool_rpc")

(* agent.ts:297-332, the tool loop from the tool at toolIdx on, up to the     *)
(* await of that tool's execution (or, after the last tool, the loop head).   *)
toolLoop(ws, S, i) ==
  LET r == S.runs[i] IN
  IF r.toolIdx > Len(r.toolUses)
  THEN loopHead(ws, endBatch(S, i), i)
  ELSE IF S.aborted[i]
  THEN genReturn(ws, yield(ws, S, i, cancelledEvent), i)
  ELSE LET name == r.toolUses[r.toolIdx]
           S1 == yield(ws, S, i, [type |-> "tool_start", name |-> name])
       IN IF name = McpTool
          THEN [S1 EXCEPT !.runs[i].pc = "tool_mcp"]
          ELSE sendRpc(ws, S1, i, name, "tool_rpc")

(* agent.ts:314-326: the awaited tool execution returned result. *)
toolDone(ws, S, i, result) ==
  LET name == S.runs[i].toolUses[S.runs[i].toolIdx]
      S1 == yield(ws, S, i, [type |-> "tool_end", name |-> name, result |-> result.content])
  IN IF Stopped(S1, i) THEN S1
     ELSE toolLoop(ws, [pushToolResult(S1, i, result) EXCEPT !.runs[i].toolIdx = @ + 1], i)

(* An executeVaultTool that reports a failed call without the error flag. *)
executeVaultToolUnflagged(outcome) ==
  IF outcome.ok THEN [content |-> <<"ok">>, isError |-> FALSE]
  ELSE [content |-> <<"Error: ">> \o outcome.reason, isError |-> FALSE]

(* executeVaultTool (vault-tools.ts:24-119) around the settled bridge call:   *)
(* a rejection becomes the result 'Error: <message>' flagged isError.         *)
executeVaultTool(outcome) ==
  IF outcome.ok THEN [content |-> <<"ok">>, isError |-> FALSE]
  ELSE [content |-> <<"Error: ">> \o outcome.reason, isError |-> TRUE]

(* agent.ts:204-207: after buildSystemPrompt, the first message is pushed and *)
(* the loop is entered.                                                       *)
startLoop(ws, S, i) ==
  loopHead(ws, [S EXCEPT !.runs[i].iteration = 0, !.runs[i].continueLoop = TRUE], i)

(* The continuation of run i after the promise it awaits settled with outcome. *)
(* buildSystemPrompt (agent.ts:109-145) and loadSkills (agent.ts:61-104) catch *)
(* every rejection and go on to the next bridge call without looking at the    *)
(* abort signal.                                                               *)
resume(ws, S, i, outcome) ==
  LET pc == S.runs[i].pc IN
  CASE pc = "sys_claude" -> sendRpc(ws, S, i, "vault_read", "sys_instr")
    [] pc = "sys_instr" -> sendRpc(ws, S, i, "vault_glob", "sys_glob")
    [] pc = "sys_glob" ->
         IF outcome.ok /\ outcome.files > 0
         THEN sendRpc(ws, [S EXCEPT !.runs[i].skillsLeft = outcome.files - 1], i,
                      "vault_read", "sys_skill")
         ELSE startLoop(ws, S, i)
    [] pc = "sys_skill" ->
         IF S.runs[i].skillsLeft > 0
         THEN sendRpc(ws, [S EXCEPT !.runs[i].skillsLeft = @ - 1], i, "vault_read", "sys_skill")
         ELSE startLoop(ws, S, i)
    [] pc = "tool_rpc" -> toolDone(ws, S, i, executeVaultTool(outcome))
    [] OTHER -> S

(* pending.resolve / pending.reject called on the promise of op: a promise   *)
(* keeps its first settlement; every call is counted and logged.             *)
settle(S, op, outcome, elapsed) ==
  [S EXCEPT !.promises[op].settles = @ + 1,
            !.log = @ \cup {[rpc |-> op, ok |-> outcome.ok, reason |-> outcome.reason,
                             elapsed |-> elapsed, first |-> S.promises[op].settles = 0]}]

(* The microtask that follows a settlement: the awaiting run continues, once. *)
settleAndResume(ws, S, op, outcome, elapsed) ==
  LET S1 == settle(S, op, outcome, elapsed) IN
  IF S.promises[op].settles = 0 THEN resume(ws, S1, S.promises[op].run, outcome) ELSE S1

(* `API_ERROR_${err.status}`: the status as the template literal prints it, *)
(* 'undefined' for an APIError that has none.                               *)
NoStatus == "undefined"
apiErrorCode(status) ==
  IF status = NoStatus THEN "API_ERROR_undefined"
  ELSE IF status = "529" THEN "API_ERROR_529"
  ELSE "API_ERROR_500"

(* agent.ts:341-353 *)
errorCode(err) ==
  IF err.apiError THEN apiErrorCode(err.status) ELSE "AGENT_ERROR"

(* What the completion call throws: an Anthropic.APIError built from a       *)
(* response (it has the HTTP status), one built without a response (a        *)
(* connection failure: no status), or something else.                        *)
OverloadedError == [apiError |-> TRUE, status |-> "529"]
ConnectionError == [apiError |-> TRUE, status |-> NoStatus]
OtherError == [apiError |-> FALSE, status |-> NoStatus]

(* agent.ts:237-356: the open backend stream delivers ev to run i.  The abort *)
(* check of line 238 runs for an event the stream yields, not when the stream *)
(* ends or throws.                                                            *)
onStreamEvent(ws, S, i, ev) ==
  LET r == S.runs[i] IN
  CASE ev.kind = "text" ->
         IF S.aborted[i] THEN genReturn(ws, yield(ws, S, i, cancelledEvent), i)
         ELSE yield(ws, [S EXCEPT !.runs[i].currentText = @ \o ev.text], i,
                    [type |-> "text_delta", text |-> ev.text])
    [] ev.kind = "tool" ->
         IF S.aborted[i] THEN genReturn(ws, yield(ws, S, i, cancelledEvent), i)
         ELSE [S EXCEPT !.runs[i].toolUses = Append(@, ev.name)]
    [] ev.kind = "end" ->
         IF ev.stop = "tool_use" /\ Len(r.toolUses) > 0
         THEN toolLoop(ws, [pushAssistant(S, i) EXCEPT !.runs[i].toolIdx = 1], i)
         ELSE LET S1 == yield(ws, [pushAssistant(S, i) EXCEPT !.runs[i].continueLoop = FALSE], i,
                              [type |-> "complete", result |-> r.currentText])
              IN IF Stopped(S1, i) THEN S1 ELSE loopHead(ws, S1, i)
    [] ev.kind = "fail" ->
         genReturn(ws, yield(ws, S, i, [type |-> "error", code |-> errorCode(ev.err)]), i)

(* What the backend stream of a run may deliver next; the text fragments of *)
(* the session are told apart by their number.                              *)
(* The text of the fragment sent when n fragments are still to come: the    *)
(* fragments of a session differ.                                           *)
Fragment(n) == IF n \in 1..4 THEN <<"t1", "t2", "t3", "t4">>[n] ELSE "t"

StreamEvents(b, r) ==
  {[kind |-> "text", text |-> <<Fragment(x)>>] : x \in {y \in {b.deltas} : y > 0}}
  \cup {[kind |-> "tool", name |-> n] : n \in {m \in ToolNames : b.tools > 0}}
  \cup {[kind |-> "end", stop |-> "end_turn"]}
  \cup {[kind |-> "end", stop |-> "tool_use"] :
           x \in {y \in {1} : b.rounds > 0 /\ Len(r.toolUses) > 0}}
  \cup {[kind |-> "fail", err |-> e] : e \in {OverloadedError, OtherError}}

spend(b, ev) ==
  CASE ev.kind = "text" -> [b EXCEPT !.deltas = @ - 1]
    [] ev.kind = "tool" -> [b EXCEPT !.tools = @ - 1]
    [] ev.kind = "end" /\ ev.stop = "tool_use" -> [b EXCEPT !.rounds = @ - 1]
    [] OTHER -> b

(* ---------------------------------------------------------------------- *)
(* Actions                                                                *)
(* ---------------------------------------------------------------------- *)

SessionCfg == [runs |-> MaxRuns, deltas |-> MaxDeltas, tools |-> MaxTools,
               rounds |-> MaxToolRounds, skills |-> MaxSkills]

(* The connection startServer accepted: handler attached and listed. *)
Attached == [token |-> AUTH_TOKEN, handler |-> TRUE, listed |-> TRUE, closeCode |-> 0,
             terminated |-> FALSE, inactiveMs |-> 0, beatMs |-> 0]

(* A 'message' listener that waits for the handler of the previous message: *)
(* no frame is handled while a run is suspended on an RPC.                   *)
ReceivingSerial ==
  server.handler /\ ~server.terminated /\ wsState # "CLOSED" /\ pendingRpcs = <<>>

(* The 'message' listener of the constructor (server.ts:46-50) is attached *)
(* and the socket still delivers frames: it is not closed, and it was not  *)
(* destroyed by ws.terminate().                                            *)
Receiving == server.handler /\ ~server.terminated /\ wsState # "CLOSED"

(* A 'message' listener that leaves lastActivity alone. *)
touchNever == UNCHANGED server

(* this.lastActivity = Date.now(), before handleMessage *)
touch == server' = [server EXCEPT !.inactiveMs = 0]

InitHandler ==
  /\ wsState = "OPEN"
  /\ pendingRpcs = <<>>
  /\ timers = <<>>
  /\ activeRequests = <<>>
  /\ aborted = [i \in RunIx |-> FALSE]
  /\ runs = [i \in RunIx |-> IdleRun]
  /\ wire = [i \in RunIx |-> <<>>]
  /\ promises = <<>>
  /\ nextRun = 1
  /\ sdk = IdleSdk
  /\ client = IdleClient
  /\ edits = NoEditHistory
  /\ streams = IdleStreams
  /\ link = ConnectedLink
  /\ peer = NoPeer
  /\ last = [op |-> "init", how |-> "-", settled |-> {}, wrote |-> <<>>,
             yielded |-> [i \in RunIx |-> <<>>]]

InitSession == InitHandler /\ server = Attached

Init == InitSession /\ budget = SessionCfg

(* server.ts:98-193 up to the first suspension.  throws: runAgent throws     *)
(* before its loop (outside its own try), which handlePrompt catches.        *)
(* Request ids are interchangeable names: the first prompt is called r1. *)
PromptIds(n) == IF n = 1 THEN {"r1"} ELSE Ids

handlePrompt(ws, S, i, id, throws) ==
  LET S0 == [S EXCEPT !.activeRequests = Put(@, id, i),
                      !.runs[i] = [IdleRun EXCEPT !.id = id, !.pc = "starting"]]
  IN IF throws THEN catchBlock(ws, S0, i)
     ELSE sendRpc(ws, S0, i, "vault_read", "sys_claude")

HandlePrompt(id, throws) ==
  /\ Receiving
  /\ touch
  /\ budget.runs > 0
  /\ id \in PromptIds(nextRun)
  /\ Commit(handlePrompt(wsState, St, nextRun, id, throws), "prompt",
            IF id \in DOMAIN activeRequests THEN "duplicate" ELSE "new")
  /\ nextRun' = nextRun + 1
  /\ budget' = [budget EXCEPT !.runs = @ - 1]
  /\ UNCHANGED wsState

(* handleRpcResponse that answers an unknown id with an error message. *)
handleRpcResponseStrict(ws, S, op, outcome) ==
  IF op \notin DOMAIN S.pendingRpcs
  THEN send(ws, S, 0, [type |-> "error", code |-> "UNKNOWN_RPC"])
  ELSE settleAndResume(ws, [S EXCEPT !.timers = Drop(@, op), !.pendingRpcs = Drop(@, op)],
                       op, outcome, 0)

(* handleRpcResponse without its clearTimeout: the timer stays armed. *)
handleRpcResponseKeepsTimer(ws, S, op, outcome) ==
  IF op \notin DOMAIN S.pendingRpcs THEN S
  ELSE settleAndResume(ws, [S EXCEPT !.pendingRpcs = Drop(@, op)], op, outcome, 0)

(* server.ts:195-210 *)
handleRpcResponse(ws, S, op, outcome) ==
  IF op \notin DOMAIN S.pendingRpcs THEN S
  ELSE settleAndResume(ws, [S EXCEPT !.timers = Drop(@, op), !.pendingRpcs = Drop(@, op)],
                       op, outcome, 0)

(* What an rpc_response may carry; files: the paths a vault_glob result names. *)
(* Only the answer to a vault_glob is looked at beyond ok/error, and an     *)
(* answer to an id that is not pending is not looked at at all.             *)
Outcomes(b, op) ==
  {[ok |-> FALSE, reason |-> <<"remote error">>, files |-> 0]}
  \cup {[ok |-> TRUE, reason |-> <<"result">>, files |-> n] :
          n \in {m \in 0..b.skills :
                  /\ op \in DOMAIN pendingRpcs
                  /\ m > 0 => pendingRpcs[op].method = "vault_glob"}}

(* An rpc_response of the client that carries a plain result. *)
PlainResult == [ok |-> TRUE, reason |-> <<"result">>, files |-> 0]

HandleRpcResponse(op, outcome) ==
  /\ Receiving
  /\ touch
  /\ outcome \in Outcomes(budget, op)
  /\ Commit(handleRpcResponse(wsState, St, op, outcome), "rpc_response",
            IF op \in DOMAIN pendingRpcs THEN "settles" ELSE "unknown")
  /\ budget' = [budget EXCEPT !.skills = @ - outcome.files]
  /\ UNCHANGED <<wsState, nextRun>>

(* handleCancel that also reports the cancellation to the caller. *)
handleCancelNotify(S, id) ==
  IF id \in DOMAIN S.activeRequests
  THEN send("OPEN", [S EXCEPT !.aborted[S.activeRequests[id]] = TRUE], S.activeRequests[id],
            [type |-> "complete", requestId |-> id, result |-> Cancelled])
  ELSE S

(* server.ts:212-218 *)
handleCancel(S, id) ==
  IF id \in DOMAIN S.activeRequests
  THEN [S EXCEPT !.aborted[S.activeRequests[id]] = TRUE]
  ELSE S

HandleCancel(id) ==
  /\ Receiving
  /\ touch
  /\ Commit(handleCancel(St, id), "cancel",
            IF id \notin DOMAIN activeRequests THEN "unknown"
            ELSE IF aborted[activeRequests[id]] THEN "again" ELSE "aborts")
  /\ UNCHANGED <<wsState, nextRun, budget>>

(* A handler that answers a ping only once no operation of the session is  *)
(* pending.                                                                *)
HandlePingWhenIdle ==
  /\ Receiving
  /\ pendingRpcs = <<>>
  /\ touch
  /\ Commit(send(wsState, St, 0, [type |-> "pong"]), "ping", "-")
  /\ UNCHANGED <<wsState, nextRun, budget>>

(* server.ts:92-94 *)
HandlePing ==
  /\ Receiving
  /\ touch
  /\ Commit(send(wsState, St, 0, [type |-> "pong"]), "ping", "-")
  /\ UNCHANGED <<wsState, nextRun, budget>>

(* A handler that answers an unparsable frame and then gives up the         *)
(* connection.                                                             *)
HandleInvalidJsonCloses ==
  /\ Receiving
  /\ touch
  /\ wsState' = "CLOSING"
  /\ Commit(send(wsState, St, 0, [type |-> "error", code |-> "INVALID_JSON"]),
            "invalid_json", "-")
  /\ UNCHANGED <<nextRun, budget>>

(* server.ts:73-78 *)
HandleInvalidJson ==
  /\ Receiving
  /\ touch
  /\ Commit(send(wsState, St, 0, [type |-> "error", code |-> "INVALID_JSON"]),
            "invalid_json", "-")
  /\ UNCHANGED <<wsState, nextRun, budget>>

(* A chunk (or the end, or a failure) of the backend stream of run i arrives. *)
BackendEvent(i, ev) ==
  /\ runs[i].pc = "streaming"
  /\ ev \in StreamEvents(budget, runs[i])
  /\ Commit(onStreamEvent(wsState, St, i, ev), "backend", "-")
  /\ budget' = spend(budget, ev)
  /\ UNCHANGED <<wsState, nextRun, server>>

(* mcpClientManager.callTool (mcp-client.ts:127-168) returns; it never throws. *)
McpToolDone(i, isError) ==
  /\ runs[i].pc = "tool_mcp"
  /\ Commit(toolDone(wsState, St, i, [content |-> <<"mcp">>, isError |-> isError]),
            "mcp", "-")
  /\ UNCHANGED <<wsState, nextRun, budget, server>>

(* A timer callback that deletes the entry and forgets to reject. *)
rpcTimeoutNoReject(ws, S, op) ==
  [S EXCEPT !.timers = Drop(@, op), !.pendingRpcs = Drop(@, op)]

(* server.ts:231-234, the timer callback of sendRpc *)
rpcTimeout(ws, S, op) ==
  settleAndResume(ws, [S EXCEPT !.timers = Drop(@, op), !.pendingRpcs = Drop(@, op)], op,
                  [ok |-> FALSE, reason |-> <<"RPC timeout: ", S.promises[op].method>>,
                   files |-> 0],
                  S.timers[op])

(* A timer that fires without waiting for its delay. *)
RpcTimeoutEarly(op) ==
  /\ op \in DOMAIN timers
  /\ Commit(rpcTimeout(wsState, St, op), "timeout", "-")
  /\ UNCHANGED <<wsState, nextRun, budget, server>>

(* setTimeout(..., RPC_TIMEOUT): the callback of an armed timer runs once its *)
(* delay has elapsed, not before.                                            *)
RpcTimeout(op) ==
  /\ op \in DOMAIN timers
  /\ timers[op] >= RPC_TIMEOUT
  /\ Commit(rpcTimeout(wsState, St, op), "timeout", "-")
  /\ UNCHANGED <<wsState, nextRun, budget, server>>

(* Time passes: every armed timer ages, up to its deadline. *)
Tick ==
  /\ \E op \in DOMAIN timers : timers[op] < RPC_TIMEOUT
  /\ timers' = [op \in DOMAIN timers |->
                  IF timers[op] < RPC_TIMEOUT THEN timers[op] + TickMs ELSE timers[op]]
  /\ UNCHANGED <<wsState, pendingRpcs, activeRequests, aborted, runs, wire,
                 promises, nextRun, budget, sdk, client, peer, link, streams, edits, server, last>>

RECURSIVE settleAll(_, _, _)
settleAll(S, ops, outcome) ==
  IF ops = {} THEN S
  ELSE LET op == CHOOSE o \in ops : TRUE
       IN settleAll(settle(S, op, outcome, 0), ops \ {op}, outcome)

RECURSIVE resumeAll(_, _, _, _)
resumeAll(ws, S, ops, outcome) ==
  IF ops = {} THEN S
  ELSE LET op == CHOOSE o \in ops : TRUE
       IN resumeAll(ws, resume(ws, S, S.promises[op].run, outcome), ops \ {op}, outcome)

closedOutcome == [ok |-> FALSE, reason |-> <<"Connection closed">>, files |-> 0]

(* server.ts:302-317, then the continuations of the runs whose RPC it        *)
(* rejected (they touch disjoint state while the socket is closed, so their  *)
(* order does not matter).                                                   *)
cleanup(ws, S) ==
  LET ops == DOMAIN S.pendingRpcs
      woken == {op \in ops : S.promises[op].settles = 0}
      S1 == settleAll(S, ops, closedOutcome)
      S2 == [S1 EXCEPT !.timers = [op \in DOMAIN @ \ ops |-> @[op]],
                       !.pendingRpcs = <<>>,
                       !.aborted = [k \in RunIx |->
                          @[k] \/ \E id \in DOMAIN S.activeRequests : S.activeRequests[id] = k],
                       !.activeRequests = <<>>]
  IN resumeAll(ws, S2, woken, closedOutcome)

(* The socket closes (the peer, the network): readyState becomes CLOSED and  *)
(* the 'close' event runs the listeners: cleanup (server.ts:51) when a       *)
(* handler is attached, and connections.delete(ws) (server.ts:367-370).      *)
OnClose ==
  /\ wsState # "CLOSED"
  /\ server.handler \/ server.closeCode # 0
  /\ wsState' = "CLOSED"
  /\ Commit(IF server.handler THEN cleanup("CLOSED", St) ELSE St, "close", "-")
  /\ server' = [server EXCEPT !.listed = FALSE]
  /\ UNCHANGED <<nextRun, budget>>

Next ==
  \/ \E id \in PromptIds(nextRun), throws \in BOOLEAN : HandlePrompt(id, throws)
  \/ \E op \in DOMAIN promises \cup {NoOp} : \E outcome \in Outcomes(budget, op) :
        HandleRpcResponse(op, outcome)
  \/ \E id \in Ids : HandleCancel(id)
  \/ HandlePing
  \/ HandleInvalidJson
  \/ \E i \in RunIx : \E ev \in StreamEvents(budget, runs[i]) : BackendEvent(i, ev)
  \/ \E i \in RunIx, isError \in BOOLEAN : McpToolDone(i, isError)
  \/ \E op \in DOMAIN timers : RpcTimeout(op)
  \/ Tick
  \/ OnClose

Spec == Init /\ [][Next]_vars

(* What the environment and the scheduler guarantee: time passes and a due   *)
(* timer fires; an open backend stream ends (or fails) at some point; a call *)
(* of an MCP tool returns (the MCP client bounds every request).  Nothing    *)
(* obliges the client to answer an RPC, to cancel or to close.               *)
StreamEnd == [kind |-> "end", stop |-> "end_turn"]

Fairness ==
  /\ WF_vars(Tick)
  /\ \A i \in RunIx : WF_vars(\E op \in DOMAIN timers : op[1] = i /\ RpcTimeout(op))
  /\ \A i \in RunIx : WF_vars(BackendEvent(i, StreamEnd))
  /\ \A i \in RunIx : WF_vars(\E isError \in BOOLEAN : McpToolDone(i, isError))

(* The session of one prompt, for the properties of behaviours. *)
LiveCfg == [runs |-> 1, deltas |-> MaxDeltas, tools |-> MaxTools,
            rounds |-> MaxToolRounds, skills |-> MaxSkills]

InitLive == InitSession /\ budget = LiveCfg

SpecLive == InitLive /\ [][Next]_vars /\ Fairness

(* ---------------------------------------------------------------------- *)
(* One run against a backend that keeps asking for tools                  *)
(* ---------------------------------------------------------------------- *)

(* The backend is ready to answer one iteration more than MAX_ITERATIONS   *)
(* with stop reason tool_use, each time announcing one MCP tool.           *)
IterCfg == [runs |-> 1, deltas |-> 0, tools |-> MAX_ITERATIONS + 1,
            rounds |-> MAX_ITERATIONS + 1, skills |-> 0]

InitIter == InitSession /\ budget = IterCfg

(* What that backend delivers next on the open stream of run r: the one tool *)
(* call, then the end of the response (tool_use, or a natural stop).         *)
IterEvents(b, r) ==
  {ev \in StreamEvents(b, r) :
     \/ ev.kind = "tool" /\ ev.name = McpTool /\ Len(r.toolUses) = 0
     \/ ev.kind = "end" /\ ev.stop = "tool_use"
     \/ ev = StreamEnd}

NextIter ==
  \/ HandlePrompt("r1", FALSE)
  \/ \E op \in DOMAIN pendingRpcs : \E outcome \in Outcomes(budget, op) :
        HandleRpcResponse(op, outcome)
  \/ \E ev \in IterEvents(budget, runs[1]) : BackendEvent(1, ev)
  \/ McpToolDone(1, FALSE)
  \/ HandleCancel("r1")

SpecIter == InitIter /\ [][NextIter]_vars

(* ---------------------------------------------------------------------- *)
(* A session whose backend streams several fragments and tools            *)
(* ---------------------------------------------------------------------- *)

(* Two prompts whose backend streams send one text fragment more and ask   *)
(* for no tool.                                                            *)
OrderCfg == [runs |-> MaxRuns, deltas |-> MaxDeltas + 1, tools |-> 0,
             rounds |-> 0, skills |-> 0]

InitOrder == InitSession /\ budget = OrderCfg

NextOrder ==
  \/ \E id \in PromptIds(nextRun), throws \in BOOLEAN : HandlePrompt(id, throws)
  \/ \E op \in DOMAIN promises \cup {NoOp} : \E outcome \in Outcomes(budget, op) :
        HandleRpcResponse(op, outcome)
  \/ \E id \in Ids : HandleCancel(id)
  \/ HandlePing
  \/ HandleInvalidJson
  \/ \E i \in RunIx : \E ev \in StreamEvents(budget, runs[i]) : BackendEvent(i, ev)
  \/ \E op \in DOMAIN timers : RpcTimeout(op)
  \/ Tick
  \/ OnClose

SpecOrder == InitOrder /\ [][NextOrder]_vars

(* One prompt whose backend may announce one tool more. *)
ToolsCfg == [runs |-> 1, deltas |-> MaxDeltas, tools |-> MaxTools + 1,
             rounds |-> MaxToolRounds, skills |-> 0]

InitTools == InitSession /\ budget = ToolsCfg

SpecTools == InitTools /\ [][Next]_vars

(* ---------------------------------------------------------------------- *)
(* The SDK-based runAgent (query() runs the tool loop)                    *)
(* ---------------------------------------------------------------------- *)

sdkYield(K, ev) == [K EXCEPT !.yielded = Append(@, ev)]

(* pendingTools.indexOf(name), 1-based; 0 when absent. *)
indexOf(q, name) ==
  IF \E n \in 1..Len(q) : q[n] = name
  THEN CHOOSE n \in 1..Len(q) : q[n] = name /\ \A m \in 1..(n - 1) : q[m] # name
  ELSE 0

(* pendingTools.splice(idx, 1) *)
splice(q, idx) == [n \in 1..(Len(q) - 1) |-> IF n < idx THEN q[n] ELSE q[n + 1]]

(* drainToolEvents: every queued event is yielded, in queue order; a tool_end *)
(* takes the first pending entry of its name off pendingTools.               *)
RECURSIVE drainToolEvents(_)
drainToolEvents(K) ==
  IF K.eventQueue = <<>> THEN K
  ELSE LET event == Head(K.eventQueue)
           idx == indexOf(K.pendingTools, event.name)
           K1 == [K EXCEPT !.eventQueue = Tail(@),
                           !.pendingTools = IF event.type = "tool_end" /\ idx > 0
                                            THEN splice(@, idx) ELSE @]
       IN drainToolEvents(sdkYield(K1, event))

(* closePendingTools: a synthetic tool_end for every tool still pending. *)
RECURSIVE closePendingTools(_)
closePendingTools(K) ==
  IF K.pendingTools = <<>> THEN K
  ELSE closePendingTools(sdkYield([K EXCEPT !.pendingTools = Tail(@)],
                                  [type |-> "tool_end", name |-> Head(K.pendingTools),
                                   result |-> Empty]))

(* case 'assistant': tool_start for each tool_use block, in block order. *)
RECURSIVE toolStarts(_, _)
toolStarts(K, blocks) ==
  IF blocks = <<>> THEN K
  ELSE toolStarts(sdkYield([K EXCEPT !.pendingTools = Append(@, Head(blocks))],
                           [type |-> "tool_start", name |-> Head(blocks)]),
                  Tail(blocks))

(* The body of `for await (const message of queryStream)`. *)
onSdkMessage(K, m) ==
  LET K1 == drainToolEvents(K) IN
  CASE m.type = "stream_event" /\ m.event = "content_block_start" -> closePendingTools(K1)
    [] m.type = "stream_event" /\ m.event = "text_delta" ->
         sdkYield(K1, [type |-> "text_delta", text |-> <<"t">>])
    [] m.type = "stream_event" /\ m.event = "thinking_delta" ->
         sdkYield(K1, [type |-> "thinking", text |-> <<"t">>])
    [] m.type = "assistant" -> toolStarts(closePendingTools(K1), m.content)
    [] m.type = "result" ->
         LET K2 == closePendingTools(drainToolEvents(K1))
         IN IF m.subtype = "success"
            THEN sdkYield(K2, [type |-> "complete", result |-> <<"result">>])
            ELSE sdkYield(K2, [type |-> "error", code |-> m.subtype])
    [] OTHER -> K1

(* A generator that ends without clearing its interval. *)
sdkFinallyLeaks(K, exit) == [K EXCEPT !.pc = "done", !.exit = exit]

(* The finally block of runAgent (part_000:381-383): clearInterval, and the *)
(* generator is done.                                                       *)
sdkFinally(K, exit) == [K EXCEPT !.pc = "done", !.activityCheck = FALSE, !.exit = exit]

(* handlePrompt takes the events the generator yields (server.ts:111-122):  *)
(* once its signal is aborted it leaves the loop at the first event it is   *)
(* handed, which makes the generator return from that yield through its     *)
(* finally block.  K0: the generator before the step, K: after it, had all  *)
(* its events been taken.                                                   *)
consume(K0, K) ==
  IF K0.abort = "caller" /\ Len(K.yielded) > Len(K0.yielded)
  THEN sdkFinally([K0 EXCEPT !.yielded = Append(@, K.yielded[Len(K0.yielded) + 1])],
                  "return")
  ELSE K

(* The tool_use blocks one assistant message may carry. *)
Blocks == UNION {[1..n -> ToolNames] : n \in 0..MaxBlocks}

SdkMessages ==
  {[type |-> "stream_event", event |-> e] :
      e \in {"content_block_start", "text_delta", "thinking_delta"}}
  \cup {[type |-> "assistant", content |-> b] : b \in Blocks}
  \cup {[type |-> "result", subtype |-> st] : st \in {"success", "error_max_turns"}}
  \cup {[type |-> "user"]}

(* The vault tools among the blocks: the SDK invokes their handlers. *)
vaultCalls(blocks) == SelectSeq(blocks, LAMBDA name : name = VaultTool)

(* runAgent is called and query() is started. *)
SdkRunAgent ==
  /\ sdk.pc = "idle"
  /\ sdk' = [sdk EXCEPT !.pc = "running", !.left = MaxSdkMessages,
                        !.elapsed = 0, !.activityCheck = TRUE]
  /\ UNCHANGED <<sessionVars, client, peer, link, streams, edits>>

(* The query stream delivers message m; after a result message it ends. *)
SdkMessage(m) ==
  /\ sdk.pc = "running"
  /\ sdk.left > 0
  /\ m \in SdkMessages
  /\ LET K == [onSdkMessage(sdk, m) EXCEPT
                  !.left = @ - 1,
                  !.elapsed = 0,
                  !.executing = IF m.type = "assistant"
                                THEN @ \o vaultCalls(m.content) ELSE @]
         K0 == [sdk EXCEPT !.left = @ - 1, !.elapsed = 0]
     IN sdk' = consume(K0, IF m.type = "result" THEN sdkFinally(K, "result") ELSE K)
  /\ UNCHANGED <<sessionVars, client, peer, link, streams, edits>>

(* The handler of the k-th vault tool in execution finishes (vault-tools.ts: *)
(* it awaits the bridge and then pushes its tool_end onto the event queue; a *)
(* rejected bridge call makes it throw before the push).                     *)
VaultToolHandler(k, ok) ==
  /\ sdk.pc = "running"
  /\ k \in 1..Len(sdk.executing)
  /\ sdk' = [sdk EXCEPT !.executing = splice(@, k),
                        !.eventQueue = IF ok
                                       THEN Append(@, [type |-> "tool_end",
                                                       name |-> sdk.executing[k],
                                                       result |-> <<"ok">>])
                                       ELSE @]
  /\ UNCHANGED <<sessionVars, client, peer, link, streams, edits>>

(* The query stream throws: the catch block of runAgent, then its finally. *)
SdkThrows ==
  /\ sdk.pc = "running"
  /\ sdk' = consume(sdk, sdkFinally(sdkYield(closePendingTools(drainToolEvents(sdk)),
                                             [type |-> "error", code |-> "AGENT_ERROR"]),
                                    "throw"))
  /\ UNCHANGED <<sessionVars, client, peer, link, streams, edits>>

NextSdk ==
  \/ SdkRunAgent
  \/ \E m \in SdkMessages : SdkMessage(m)
  \/ \E k \in 1..Len(sdk.executing), ok \in BOOLEAN : VaultToolHandler(k, ok)
  \/ SdkThrows

InitSdk == InitSession /\ budget = SessionCfg

SpecSdk == InitSdk /\ [][NextSdk]_vars

(* Time passes without a message of the SDK, up to the first check of the  *)
(* watchdog that would find the run inactive; it also passes once the run  *)
(* is over.                                                                *)
SdkElapse ==
  /\ sdk.pc \in {"running", "done"}
  /\ sdk.elapsed <= INACTIVITY_TIMEOUT_MS
  /\ sdk' = [sdk EXCEPT !.elapsed = @ + WatchMs]
  /\ UNCHANGED <<sessionVars, client, peer, link, streams, edits>>

(* part_000:265-271, the callback of activityCheck when it finds the run    *)
(* inactive (otherwise it does nothing).                                    *)
ActivityCheck ==
  /\ sdk.activityCheck
  /\ sdk.elapsed > INACTIVITY_TIMEOUT_MS
  /\ sdk' = [sdk EXCEPT !.abort = IF @ = "none" THEN "watchdog" ELSE @]
  /\ UNCHANGED <<sessionVars, client, peer, link, streams, edits>>

(* The caller's signal aborts: the listener forwards it (part_000:195-198). *)
SdkSignalAbort ==
  /\ sdk.pc = "running"
  /\ sdk.abort = "none"
  /\ sdk' = [sdk EXCEPT !.abort = "caller"]
  /\ UNCHANGED <<sessionVars, client, peer, link, streams, edits>>

(* What query() does once its abortController is aborted is the SDK's: its   *)
(* stream throws (SdkThrows), still delivers messages, or ends without a    *)
(* result message, and then the for-await loop is left with no event.       *)
SdkStreamEnds ==
  /\ sdk.pc = "running"
  /\ sdk.abort # "none"
  /\ sdk' = sdkFinally(sdk, "end")
  /\ UNCHANGED <<sessionVars, client, peer, link, streams, edits>>

NextWatch ==
  \/ NextSdk
  \/ SdkElapse
  \/ ActivityCheck
  \/ SdkSignalAbort
  \/ SdkStreamEnds

SpecWatch == InitSdk /\ [][NextWatch]_vars

(* ---------------------------------------------------------------------- *)
(* One run whose completion call may fail in every way                     *)
(* ---------------------------------------------------------------------- *)

(* The completion call of run i fails without an HTTP response. *)
BackendConnectionError(i) ==
  /\ runs[i].pc = "streaming"
  /\ Commit(onStreamEvent(wsState, St, i, [kind |-> "fail", err |-> ConnectionError]),
            "backend", "-")
  /\ UNCHANGED <<wsState, nextRun, budget, server>>

FailCfg == [runs |-> 1, deltas |-> MaxDeltas, tools |-> 1, rounds |-> MaxToolRounds,
            skills |-> 0]

InitFail == InitSession /\ budget = FailCfg

NextFail ==
  \/ Next
  \/ \E i \in RunIx : BackendConnectionError(i)

SpecFail == InitFail /\ [][NextFail]_vars

(* ---------------------------------------------------------------------- *)
(* The plugin's WebSocketClient and the messages of the server             *)
(* ---------------------------------------------------------------------- *)

(* The id of the n-th prompt of the client: randomUUID() returns an id it   *)
(* has not returned before.                                                 *)
ClientIds == <<"r1", "r2", "r3">>

call(C, id, handler) == [C EXCEPT !.calls = Append(@, [id |-> id, handler |-> handler])]

(* The handler a streaming message type is dispatched to. *)
handlerOf(type) ==
  CASE type = "text_delta" -> "onTextDelta"
    [] type = "tool_start" -> "onToolStart"
    [] type = "tool_end" -> "onToolEnd"
    [] type = "thinking" -> "onThinking"
    [] type = "complete" -> "onComplete"
    [] type = "error" -> "onError"

(* A handleMessage that keeps the handlers after a terminal message. *)
clientHandleMessageKeeps(C, msg) ==
  IF msg.type \in {"rpc_request", "pong"} THEN C
  ELSE IF msg.type = "error" /\ msg.requestId = "-" THEN C
  ELSE IF msg.requestId \in C.activeHandlers THEN call(C, msg.requestId, handlerOf(msg.type))
  ELSE C

(* WebSocketClient.handleMessage (part_005:425-480); requestId "-" stands   *)
(* for a message without requestId.                                        *)
clientHandleMessage(C, msg) ==
  IF msg.type \in {"rpc_request", "pong"} THEN C
  ELSE IF msg.type = "error" /\ msg.requestId = "-" THEN C
  ELSE LET C1 == IF msg.requestId \in C.activeHandlers
                 THEN call(C, msg.requestId, handlerOf(msg.type)) ELSE C
       IN IF msg.type \in {"complete", "error"}
          THEN [C1 EXCEPT !.activeHandlers = @ \ {msg.requestId}]
          ELSE C1

(* What the server may write to the client. *)
ServerMessages ==
  {[type |-> t, requestId |-> id] :
      t \in {"text_delta", "tool_start", "tool_end", "thinking", "complete", "error"},
      id \in {ClientIds[n] : n \in 1..MaxPrompts}}
  \cup {[type |-> "error", requestId |-> "-"], [type |-> "pong", requestId |-> "-"],
        [type |-> "rpc_request", requestId |-> "-"]}

(* sendPrompt (part_005:292-317) *)
ClientSendPrompt ==
  /\ client.prompts < MaxPrompts
  /\ client' = [client EXCEPT !.prompts = @ + 1,
                              !.activeHandlers = @ \cup {ClientIds[client.prompts + 1]},
                              !.left = @ + MaxReplies]
  /\ UNCHANGED <<sessionVars, sdk, peer, link, streams, edits>>

(* The 'message' listener of the client runs for msg. *)
ClientOnMessage(msg) ==
  /\ client.left > 0
  /\ msg \in ServerMessages
  /\ msg.requestId \in {ClientIds[n] : n \in 1..client.prompts} \cup {"-"}
  /\ client' = [clientHandleMessage(client, msg) EXCEPT
                  !.left = @ - 1,
                  !.terminals = IF msg.type \in {"complete", "error"} /\ msg.requestId # "-"
                                THEN Append(@, msg.requestId) ELSE @]
  /\ UNCHANGED <<sessionVars, sdk, peer, link, streams, edits>>

(* cancelRequest (part_005:322-325) *)
ClientCancelRequest(id) ==
  /\ id \in client.activeHandlers
  /\ client' = [client EXCEPT !.activeHandlers = @ \ {id}]
  /\ UNCHANGED <<sessionVars, sdk, peer, link, streams, edits>>

(* disconnect (part_005:277-287) drops the handlers of every request. *)
ClientDisconnect ==
  /\ client.activeHandlers # {}
  /\ client' = [client EXCEPT !.activeHandlers = {}]
  /\ UNCHANGED <<sessionVars, sdk, peer, link, streams, edits>>

NextClient ==
  \/ ClientSendPrompt
  \/ ClientDisconnect
  \/ \E msg \in ServerMessages : ClientOnMessage(msg)
  \/ \E id \in {ClientIds[n] : n \in 1..MaxPrompts} : ClientCancelRequest(id)

InitClient == InitSession /\ budget = SessionCfg

SpecClient == InitClient /\ [][NextClient]_vars

(* ---------------------------------------------------------------------- *)
(* startServer: the token check and the heartbeat                         *)
(* ---------------------------------------------------------------------- *)

(* What url.searchParams.get('token') may return: the secret, another      *)
(* string, or null when the parameter is missing.                          *)
Tokens == {AUTH_TOKEN, "wrong", "null"}

(* Where the heartbeat interval of the server may stand when the socket    *)
(* connects.                                                               *)
Phases == {n \in 0..HEARTBEAT_INTERVAL : n % ClockMs = 0 /\ n < HEARTBEAT_INTERVAL}

(* A socket whose 'connection' event has not run yet. *)
Upgraded(token, phase) ==
  [token |-> token, handler |-> FALSE, listed |-> FALSE, closeCode |-> 0,
   terminated |-> FALSE, inactiveMs |-> 0, beatMs |-> phase]

Connecting == ~server.handler /\ server.closeCode = 0

(* A 'connection' listener that constructs the handler before it looks at  *)
(* the token.                                                              *)
onConnectionAttachFirst(srv) ==
  IF srv.token # AUTH_TOKEN
  THEN [srv EXCEPT !.handler = TRUE, !.closeCode = UNAUTHORIZED]
  ELSE [srv EXCEPT !.handler = TRUE, !.listed = TRUE, !.inactiveMs = 0]

(* server.ts:352-371 *)
onConnection(srv) ==
  IF srv.token # AUTH_TOKEN
  THEN [srv EXCEPT !.closeCode = UNAUTHORIZED]
  ELSE [srv EXCEPT !.handler = TRUE, !.listed = TRUE, !.inactiveMs = 0]

OnConnection ==
  /\ Connecting
  /\ wsState = "OPEN"
  /\ server' = onConnection(server)
  /\ wsState' = IF server'.closeCode # 0 THEN "CLOSING" ELSE wsState
  /\ Commit(St, "connection", IF server'.closeCode # 0 THEN "rejected" ELSE "accepted")
  /\ UNCHANGED <<nextRun, budget>>

(* A frame arrives on a socket that has no 'message' listener: the socket   *)
(* emits the event and nothing runs.                                        *)
Frame ==
  /\ ~Connecting
  /\ ~server.handler
  /\ wsState # "CLOSED"
  /\ Commit(St, "frame", "dropped")
  /\ UNCHANGED <<wsState, nextRun, budget, server>>

(* A checkAlive that also gives up a connection silent for exactly the     *)
(* window.                                                                 *)
checkAliveStrict(inactiveMs) == ~(inactiveMs >= LIVENESS_WINDOW)

(* server.ts:60-69: FALSE when it terminates the socket *)
checkAlive(inactiveMs) == ~(inactiveMs > LIVENESS_WINDOW)

(* Time passes on a listed connection, up to the next run of the heartbeat *)
(* interval.                                                               *)
Elapse ==
  /\ server.listed
  /\ server.beatMs < HEARTBEAT_INTERVAL
  /\ server' = [server EXCEPT !.inactiveMs = @ + ClockMs, !.beatMs = @ + ClockMs]
  /\ UNCHANGED <<wsState, pendingRpcs, timers, activeRequests, aborted, runs, wire,
                 promises, nextRun, budget, sdk, client, peer, link, streams, edits, last>>

(* server.ts:343-350, the callback of heartbeatInterval.  ws.terminate()    *)
(* destroys the socket: readyState is CLOSING until its 'close' event runs *)
(* (OnClose), and no further frame is delivered.                            *)
Heartbeat ==
  /\ server.beatMs >= HEARTBEAT_INTERVAL
  /\ LET alive == ~server.listed \/ checkAlive(server.inactiveMs)
     IN /\ wsState' = IF alive THEN wsState ELSE "CLOSING"
        /\ server' = [server EXCEPT !.beatMs = 0,
                                    !.listed = @ /\ alive,
                                    !.terminated = @ \/ ~alive]
        /\ Commit(St, "heartbeat", IF alive THEN "alive" ELSE "terminated")
  /\ UNCHANGED <<nextRun, budget>>

ServerCfg == [runs |-> 1, deltas |-> 0, tools |-> 1, rounds |-> 1, skills |-> 0]

InitServer ==
  /\ InitHandler
  /\ \E token \in Tokens, phase \in Phases : server = Upgraded(token, phase)
  /\ budget = ServerCfg

NextServer ==
  \/ OnConnection
  \/ Frame
  \/ Elapse
  \/ Heartbeat
  \/ Next

SpecServer == InitServer /\ [][NextServer]_vars

(* An accepted connection whose client sends prompts and answers            *)
(* operations, and then may fall silent until the heartbeat gives it up.    *)
SilenceCfg == [runs |-> MaxRuns, deltas |-> 0, tools |-> 0, rounds |-> 0, skills |-> 0]

InitSilence == InitSession /\ budget = SilenceCfg

NextSilence ==
  \/ \E id \in PromptIds(nextRun) : HandlePrompt(id, FALSE)
  \/ \E op \in DOMAIN pendingRpcs : \E outcome \in Outcomes(budget, op) :
        HandleRpcResponse(op, outcome)
  \/ \E i \in RunIx : \E ev \in StreamEvents(budget, runs[i]) : BackendEvent(i, ev)
  \/ \E op \in DOMAIN timers : RpcTimeout(op)
  \/ Tick
  \/ Elapse
  \/ Heartbeat
  \/ OnClose

SpecSilence == InitSilence /\ [][NextSilence]_vars

(* ---------------------------------------------------------------------- *)
(* WebSocketClient: reconnection                                           *)
(* ---------------------------------------------------------------------- *)

RECURSIVE pow2(_)
pow2(n) == IF n = 0 THEN 1 ELSE 2 * pow2(n - 1)

(* attemptReconnect (part_005:497-528) *)
attemptReconnect(L) ==
  IF L.reconnectAttempts >= maxReconnectAttempts
  THEN [L EXCEPT !.emitted = @ + 1]
  ELSE [L EXCEPT !.reconnectAttempts = @ + 1,
                 !.timers = Append(@, reconnectDelay * pow2(L.reconnectAttempts)),
                 !.scheduled = @ + 1]

(* handleDisconnect (part_005:482-495), the permanent 'close' listener. *)
handleDisconnect(L, code) ==
  IF code # NORMAL_CLOSURE /\ L.config THEN attemptReconnect(L) ELSE L

(* The callback of the timer of attemptReconnect (part_005:513-527):        *)
(* connect (part_005:196-272) throws while a connection is in progress,     *)
(* which the callback catches and answers with attemptReconnect; returns    *)
(* when the socket is open; and otherwise creates a socket.                 *)
reconnectCallback(L) ==
  IF ~L.config THEN L
  ELSE IF L.isConnecting THEN attemptReconnect(L)
  ELSE IF L.ws = "OPEN" THEN L
  ELSE [L EXCEPT !.isConnecting = TRUE, !.ws = "CONNECTING"]

(* A socket that fails to connect fires 'error' and then 'close' with a     *)
(* code other than 1000.  onError (part_005:235-244) rejects the promise of *)
(* connect, and the catch of the timer callback that awaits it calls        *)
(* attemptReconnect; handleDisconnect, added to the same socket             *)
(* (part_005:266-270), then runs for the 'close'.                           *)
connectFails(L, code) ==
  handleDisconnect(attemptReconnect([L EXCEPT !.isConnecting = FALSE, !.ws = "CLOSED"]), code)

(* onOpen (part_005:226-234) *)
onOpen(L) == [L EXCEPT !.reconnectAttempts = 0, !.isConnecting = FALSE, !.ws = "OPEN"]

ABNORMAL_CLOSURE == 1006

(* The open socket closes. *)
LinkCloses(code) ==
  /\ link.ws = "OPEN"
  /\ link' = handleDisconnect([link EXCEPT !.ws = "CLOSED", !.scheduled = 0], code)
  /\ UNCHANGED <<sessionVars, sdk, client, peer, streams, edits>>

(* The n-th pending timer of attemptReconnect fires. *)
LinkTimer(n) ==
  /\ n \in 1..Len(link.timers)
  /\ link' = reconnectCallback([link EXCEPT !.timers = splice(@, n), !.scheduled = 0])
  /\ UNCHANGED <<sessionVars, sdk, client, peer, streams, edits>>

(* The connection attempt in progress fails. *)
LinkConnectFails ==
  /\ link.ws = "CONNECTING"
  /\ link.fails > 0
  /\ link' = connectFails([link EXCEPT !.fails = @ - 1, !.scheduled = 0], ABNORMAL_CLOSURE)
  /\ UNCHANGED <<sessionVars, sdk, client, peer, streams, edits>>

(* The connection attempt in progress succeeds. *)
LinkConnectOpens ==
  /\ link.ws = "CONNECTING"
  /\ link.opens > 0
  /\ link' = onOpen([link EXCEPT !.opens = @ - 1, !.scheduled = 0])
  /\ UNCHANGED <<sessionVars, sdk, client, peer, streams, edits>>

NextLink ==
  \/ \E code \in {NORMAL_CLOSURE, ABNORMAL_CLOSURE} : LinkCloses(code)
  \/ \E n \in 1..maxReconnectAttempts : LinkTimer(n)
  \/ LinkConnectFails
  \/ LinkConnectOpens

InitLink == InitSession /\ budget = SessionCfg

SpecLink == InitLink /\ [][NextLink]_vars

(* ---------------------------------------------------------------------- *)
(* StreamStateManager and the chat view's stream manager                   *)
(* ---------------------------------------------------------------------- *)

(* state.unsubscribe(): the manager's listener is taken off the generator. *)
unsubscribe(M, state) ==
  IF state.unsubscribe
  THEN [M EXCEPT !.subs[state.responseGenerator] = @ - 1]
  ELSE M

(* StreamStateManager.cleanup (part_005:110-117) *)
streamCleanup(M) ==
  IF M.activeStream # <<>>
  THEN [unsubscribe(M, M.activeStream[1]) EXCEPT !.activeStream = <<>>]
  ELSE M

(* A detachStream that drops the previous stream without unsubscribing. *)
detachStreamOverwrites(M, conversationId, baseMessages, responseGenerator, current) ==
  [M EXCEPT !.subs[responseGenerator] = @ + 1,
            !.activeStream = <<[conversationId |-> conversationId,
                                baseMessages |-> baseMessages,
                                responseMessages |-> current,
                                responseGenerator |-> responseGenerator,
                                isComplete |-> FALSE, unsubscribe |-> TRUE]>>]

(* StreamStateManager.detachStream (part_005:13-49) *)
detachStream(M, conversationId, baseMessages, responseGenerator, current) ==
  LET M1 == streamCleanup(M)
  IN [M1 EXCEPT !.subs[responseGenerator] = @ + 1,
                !.activeStream = <<[conversationId |-> conversationId,
                                    baseMessages |-> baseMessages,
                                    responseMessages |-> current,
                                    responseGenerator |-> responseGenerator,
                                    isComplete |-> FALSE, unsubscribe |-> TRUE]>>]

(* The value attachStream returns for state. *)
result(state) ==
  [baseMessages |-> state.baseMessages, responseMessages |-> state.responseMessages,
   responseGenerator |-> state.responseGenerator, isComplete |-> state.isComplete]

(* An attachStream that returns the state and keeps holding it. *)
attachStreamKeeps(M, conversationId) ==
  IF M.activeStream = <<>> \/ M.activeStream[1].conversationId # conversationId
  THEN [M EXCEPT !.returned = <<>>]
  ELSE [unsubscribe(M, M.activeStream[1]) EXCEPT
          !.returned = <<result(M.activeStream[1])>>,
          !.activeStream[1].unsubscribe = FALSE]

(* StreamStateManager.attachStream (part_005:55-87) *)
attachStream(M, conversationId) ==
  IF M.activeStream = <<>> \/ M.activeStream[1].conversationId # conversationId
  THEN [M EXCEPT !.returned = <<>>]
  ELSE [unsubscribe(M, M.activeStream[1]) EXCEPT
          !.returned = <<result(M.activeStream[1])>>,
          !.activeStream = <<>>]

(* StreamStateManager.markComplete (part_005:89-101) *)
markComplete(M, conversationId) ==
  IF M.activeStream # <<>> /\ M.activeStream[1].conversationId = conversationId
  THEN [M EXCEPT !.activeStream[1].isComplete = TRUE]
  ELSE M

(* StreamStateManager.hasActiveStream (part_005:103-108) *)
hasActiveStream(M, conversationId) ==
  M.activeStream # <<>> /\ M.activeStream[1].conversationId = conversationId

(* Generator g publishes a longer list of response messages: the listener   *)
(* the manager subscribed in detachStream stores it in its state.           *)
publish(M, g) ==
  LET n == M.gens[g].messages + 1
      M1 == [M EXCEPT !.gens[g].messages = n]
  IN IF /\ M.activeStream # <<>>
        /\ M.activeStream[1].responseGenerator = g
        /\ M.activeStream[1].unsubscribe
     THEN [M1 EXCEPT !.activeStream[1].responseMessages = n]
     ELSE M1

StreamStep(M, op) ==
  /\ streams' = [M EXCEPT !.op = op]
  /\ UNCHANGED <<sessionVars, sdk, client, peer, link, edits>>

(* Calls of the manager with any arguments. *)
DetachStream(c, base, g, current) ==
  /\ c \in Convs /\ g \in Gens
  /\ StreamStep([detachStream(streams, c, base, g, current) EXCEPT !.handed = 0],
                "detachStream")

AttachStream(c) ==
  /\ c \in Convs
  /\ LET M == attachStream(streams, c)
     IN StreamStep([M EXCEPT !.handed = IF M.returned # <<>> THEN @ + 1 ELSE @],
                   "attachStream")

MarkComplete(c) ==
  /\ c \in Convs
  /\ StreamStep(markComplete(streams, c), "markComplete")

(* The plugin unloads. *)
StreamCleanup ==
  /\ streams' = [streamCleanup(streams) EXCEPT !.op = "cleanup"]
  /\ UNCHANGED <<sessionVars, sdk, client, peer, link, edits>>

Publish(g) ==
  /\ streams.gens[g].messages < MaxMessages
  /\ StreamStep(publish(streams, g), "publish")

NextManager ==
  \/ \E c \in Convs, base \in 0..1, g \in Gens, current \in 0..1 :
        DetachStream(c, base, g, current)
  \/ \E c \in Convs : AttachStream(c)
  \/ \E c \in Convs : MarkComplete(c)
  \/ StreamCleanup
  \/ \E g \in Gens : Publish(g)

InitManager == InitSession /\ budget = SessionCfg

SpecManager == InitManager /\ [][NextManager]_vars

(* abortActiveStreams (useChatStreamManager.ts:52-60): every stream whose   *)
(* controller is listed is aborted and the references are cleared.          *)
abortActiveStreams(M) ==
  [M EXCEPT !.gens = [g \in Gens |-> IF @[g].status = "running"
                                     THEN [@[g] EXCEPT !.status = "aborted"] ELSE @[g]],
            !.ref = 0]

(* submitChatMutation.mutationFn up to `await responseGenerator.run()`      *)
(* (useChatStreamManager.ts:132-192): the running streams are aborted, a    *)
(* new generator is created for the conversation and becomes the active one. *)
SubmitChat(c) ==
  /\ \E g \in Gens : streams.gens[g].status = "new"
  /\ LET g == CHOOSE n \in Gens : /\ streams.gens[n].status = "new"
                                   /\ \A m \in 1..(n - 1) : streams.gens[m].status # "new"
         M == abortActiveStreams(streams)
     IN StreamStep([M EXCEPT !.gens[g] = [conv |-> c, status |-> "running", messages |-> 0],
                             !.ref = g], "submit")

(* A running generator publishes. *)
ViewPublish(g) ==
  /\ streams.gens[g].status = "running"
  /\ Publish(g)

(* run() of generator g settles, by finishing or by rejecting after its     *)
(* abort: the finally block of mutationFn (useChatStreamManager.ts:199-217). *)
MutationSettles(g) ==
  /\ streams.gens[g].status \in {"running", "aborted"}
  /\ LET c == streams.gens[g].conv
         M == markComplete(streams, c)
     IN StreamStep([M EXCEPT !.gens[g].status = "settled",
                             !.ref = IF @ # 0 /\ streams.gens[@].conv = c THEN 0 ELSE @],
                   "settled")

(* detachActiveStream (useChatStreamManager.ts:66-95): the sidebar closes. *)
DetachActiveStream(c) ==
  /\ streams.ref # 0
  /\ streams.gens[streams.ref].conv = c
  /\ StreamStep([detachStream(streams, c, 1, streams.ref, streams.gens[streams.ref].messages)
                   EXCEPT !.ref = 0, !.handed = 0], "detachStream")

NextView ==
  \/ \E c \in Convs : SubmitChat(c)
  \/ \E g \in Gens : ViewPublish(g)
  \/ \E g \in Gens : MutationSettles(g)
  \/ \E c \in Convs : DetachActiveStream(c)
  \/ \E c \in Convs : AttachStream(c)
  \/ StreamCleanup

SpecView == InitManager /\ [][NextView]_vars

(* ---------------------------------------------------------------------- *)
(* EditHistory                                                             *)
(* ---------------------------------------------------------------------- *)

(* existing.shift() while existing.length > maxVersions *)
RECURSIVE trim(_, _)
trim(list, maxVersions) ==
  IF Len(list) > maxVersions THEN trim(Tail(list), maxVersions) ELSE list

(* this.snapshots.get(path) || [] *)
getSnapshots(E, path) == IF path \in DOMAIN E.snapshots THEN E.snapshots[path] ELSE <<>>

(* A recordBefore that keeps the oldest snapshots: a full list takes no more. *)
recordBeforeKeepsOldest(E, path, content, activityId) ==
  LET snapshot == [path |-> path, content |-> content, timestamp |-> E.n + 1,
                   activityId |-> activityId]
      old == getSnapshots(E, path)
      existing == IF Len(old) >= E.maxVersions THEN old ELSE Append(old, snapshot)
  IN [E EXCEPT !.snapshots = Put(@, path, existing),
               !.keys = IF path \in DOMAIN E.snapshots THEN @ ELSE Append(@, path),
               !.recorded[path] = Append(@, snapshot),
               !.n = @ + 1]

(* EditHistory.recordBefore (ConflictManager.ts:153-170).  push and shift   *)
(* change the array of the Map in place, so a revert that holds that array  *)
(* sees the change.                                                         *)
recordBefore(E, path, content, activityId) ==
  LET snapshot == [path |-> path, content |-> content, timestamp |-> E.n + 1,
                   activityId |-> activityId]
      existing == trim(Append(getSnapshots(E, path), snapshot), E.maxVersions)
  IN [E EXCEPT !.snapshots = Put(@, path, existing),
               !.keys = IF path \in DOMAIN E.snapshots THEN @ ELSE Append(@, path),
               !.pending = [k \in DOMAIN @ |->
                              IF @[k].path = path /\ @[k].held
                              THEN [@[k] EXCEPT !.snapshots = existing] ELSE @[k]],
               !.recorded[path] = Append(@, snapshot),
               !.n = @ + 1]

(* The first snapshot with activityId, in the order of the Map's keys:      *)
(* <<path, index>> with a 0-based index, <<>> when there is none            *)
(* (ConflictManager.ts:235-241).                                            *)
RECURSIVE findByActivityId(_, _, _)
findByActivityId(E, keys, activityId) ==
  IF keys = <<>> THEN <<>>
  ELSE LET list == E.snapshots[Head(keys)]
           hits == {k \in 1..Len(list) : list[k].activityId = activityId}
       IN IF hits # {}
          THEN <<Head(keys), (CHOOSE k \in hits : \A h \in hits : k <= h) - 1>>
          ELSE findByActivityId(E, Tail(keys), activityId)

(* EditHistory.revert up to its await (ConflictManager.ts:201-219): false   *)
(* for an unknown path, an index out of range or a missing file; otherwise  *)
(* the call is suspended on vault.trash or vault.modify.                    *)
revertBegin(E, path, snapshotIndex) ==
  LET E1 == [E EXCEPT !.reverts = @ + 1, !.target = <<path, snapshotIndex>>]
  IN IF \/ path \notin DOMAIN E.snapshots
        \/ snapshotIndex < 0
        \/ snapshotIndex >= Len(E.snapshots[path])
     THEN [E1 EXCEPT !.returned = "false", !.prev = getSnapshots(E, path)]
     ELSE IF path \notin E.files
     THEN [E1 EXCEPT !.returned = "false", !.prev = getSnapshots(E, path)]
     ELSE [E1 EXCEPT !.returned = "-",
                     !.pending = Append(@, [path |-> path, snapshotIndex |-> snapshotIndex,
                                            snapshots |-> E.snapshots[path], held |-> TRUE,
                                            before |-> E.snapshots[path],
                                            trash |-> E.snapshots[path][snapshotIndex + 1].content = ""])]

(* EditHistory.revert after its await (ConflictManager.ts:221-228): the     *)
(* vault operation threw (false), or the Map gets a new array, the first    *)
(* snapshotIndex elements of the array the call read before the await.      *)
(* Other suspended reverts of the path then hold an array the Map no longer *)
(* holds.                                                                   *)
revertEnd(E, k, ok) ==
  LET r == E.pending[k]
      E1 == [E EXCEPT !.pending = splice(@, k), !.prev = r.before,
                      !.target = <<r.path, r.snapshotIndex>>]
  IN IF ~ok THEN [E1 EXCEPT !.returned = "false"]
     ELSE [E1 EXCEPT !.returned = "true",
                     !.files = IF r.trash THEN @ \ {r.path} ELSE @,
                     !.pending = [j \in DOMAIN @ |->
                                    IF @[j].path = r.path THEN [@[j] EXCEPT !.held = FALSE]
                                    ELSE @[j]],
                     !.snapshots = Put(@, r.path, SubSeq(r.snapshots, 1, r.snapshotIndex))]

EditStep(E, op) ==
  /\ edits' = [E EXCEPT !.op = op]
  /\ UNCHANGED <<sessionVars, sdk, client, peer, link, streams>>

(* getEditHistory(app) creates the singleton with the default, or           *)
(* initEditHistory(app, maxVersions) with a limit (ConflictManager.ts:276-289). *)
NewEditHistory(maxVersions) ==
  /\ ~edits.created
  /\ EditStep([edits EXCEPT !.created = TRUE, !.maxVersions = maxVersions], "new")

RecordBefore(path, content, activityId) ==
  /\ edits.created
  /\ edits.n < MaxRecords
  /\ EditStep(recordBefore(edits, path, content, activityId), "recordBefore")

Revert(path, snapshotIndex) ==
  /\ edits.created
  /\ edits.reverts < MaxReverts
  /\ EditStep(revertBegin(edits, path, snapshotIndex), "revert")

(* EditHistory.revertByActivityId (ConflictManager.ts:234-242) *)
RevertByActivityId(activityId) ==
  /\ edits.created
  /\ edits.reverts < MaxReverts
  /\ LET found == findByActivityId(edits, edits.keys, activityId)
     IN IF found = <<>>
        THEN EditStep([edits EXCEPT !.returned = "false", !.reverts = @ + 1,
                                    !.prev = <<>>, !.target = <<>>], "revertByActivityId")
        ELSE EditStep(revertBegin(edits, found[1], found[2]), "revertByActivityId")

(* The vault operation of the k-th suspended revert settles. *)
RevertSettles(k, ok) ==
  /\ k \in 1..Len(edits.pending)
  /\ EditStep(revertEnd(edits, k, ok), "settled")

Versions == {SmallVersions, DefaultMaxVersions}

NextRecord ==
  \/ \E m \in Versions : NewEditHistory(m)
  \/ \E path \in Paths, content \in Contents : RecordBefore(path, content, "a1")

InitEdits == InitSession /\ budget = SessionCfg

SpecRecord == InitEdits /\ [][NextRecord]_vars

(* A vault RPC records the state of p before it writes it; only the first   *)
(* finds that p did not exist.                                              *)
RecordEdit(content, activityId) ==
  /\ content = "" => edits.n = 0
  /\ RecordBefore("p", content, activityId)

NextEdits ==
  \/ NewEditHistory(DefaultMaxVersions)
  \/ \E content \in Contents, id \in ActivityIds : RecordEdit(content, id)
  \/ \E path \in Paths, i \in 0..DefaultMaxVersions : Revert(path, i)
  \/ \E id \in ActivityIds : RevertByActivityId(id)
  \/ \E k \in 1..MaxReverts, ok \in BOOLEAN : RevertSettles(k, ok)

SpecEdits == InitEdits /\ [][NextEdits]_vars

(* ---------------------------------------------------------------------- *)
(* Two connections of one process                                          *)
(* ---------------------------------------------------------------------- *)

(* A listener that hands the frames of every socket to the first handler. *)
handlerOfSocketFirst(conn) == "main"

(* new ConnectionHandler(ws) (server.ts:364) listens on its own socket     *)
(* (server.ts:46-53): a frame or a close of conn runs the handler of conn. *)
handlerOfSocket(conn) == conn

(* The run of the second connection: the last index, which the first        *)
(* connection does not use under PeersCfg.                                  *)
PeerRun == MaxRuns

(* What one macrotask of the second handler leaves behind: log, out and ev  *)
(* are per macrotask.                                                       *)
afterTask(S) == [S EXCEPT !.log = {}, !.out = <<>>, !.ev = [i \in RunIx |-> <<>>]]

(* The state the first handler leaves behind when it handles a frame that  *)
(* arrived on the second socket.                                           *)
CommitMain(S, op) == Commit(S, op, "peer") /\ UNCHANGED <<wsState, nextRun, budget, server>>

(* startServer accepts a second connection with the right token. *)
PeerConnects ==
  /\ peer.ws = "NONE"
  /\ peer' = [peer EXCEPT !.ws = "OPEN", !.S = NewHandler]
  /\ UNCHANGED <<sessionVars, sdk, client, link, streams, edits>>

(* A prompt arrives on the second socket. *)
PeerPrompt(id) ==
  /\ peer.ws = "OPEN"
  /\ peer.S.runs[PeerRun].pc = "idle"
  /\ IF handlerOfSocket("peer") = "peer"
     THEN /\ peer' = [peer EXCEPT !.S = afterTask(handlePrompt(peer.ws, peer.S, PeerRun, id, FALSE)),
                                  !.last = [op |-> "prompt", id |-> id, rpc |-> NoOp]]
          /\ UNCHANGED <<sessionVars, sdk, client, link, streams, edits>>
     ELSE CommitMain(handlePrompt(wsState, St, PeerRun, id, FALSE), "prompt")

(* An rpc_response arrives on the second socket; its id may be one the     *)
(* first connection was given.                                             *)
PeerRpcResponse(op, outcome) ==
  /\ peer.ws = "OPEN"
  /\ op \in DOMAIN peer.S.pendingRpcs \cup DOMAIN pendingRpcs
  /\ IF handlerOfSocket("peer") = "peer"
     THEN /\ peer' = [peer EXCEPT !.S = afterTask(handleRpcResponse(peer.ws, peer.S, op, outcome)),
                                  !.last = [op |-> "rpc_response", id |-> "-", rpc |-> op]]
          /\ UNCHANGED <<sessionVars, sdk, client, link, streams, edits>>
     ELSE CommitMain(handleRpcResponse(wsState, St, op, outcome), "rpc_response")

(* A cancel arrives on the second socket. *)
PeerCancel(id) ==
  /\ peer.ws = "OPEN"
  /\ IF handlerOfSocket("peer") = "peer"
     THEN /\ peer' = [peer EXCEPT !.S = afterTask(handleCancel(peer.S, id)),
                                  !.last = [op |-> "cancel", id |-> id, rpc |-> NoOp]]
          /\ UNCHANGED <<sessionVars, sdk, client, link, streams, edits>>
     ELSE CommitMain(handleCancel(St, id), "cancel")

(* The second socket closes. *)
PeerClose ==
  /\ peer.ws = "OPEN"
  /\ IF handlerOfSocket("peer") = "peer"
     THEN /\ peer' = [peer EXCEPT !.ws = "CLOSED", !.S = afterTask(cleanup("CLOSED", peer.S)),
                                  !.last = [op |-> "close", id |-> "-", rpc |-> NoOp]]
          /\ UNCHANGED <<sessionVars, sdk, client, link, streams, edits>>
     ELSE CommitMain(cleanup(wsState, St), "close")

(* One run per connection, no backend stream. *)
PeersCfg == [runs |-> 1, deltas |-> 0, tools |-> 0, rounds |-> 0, skills |-> 0]

InitPeers == InitSession /\ budget = PeersCfg

NextPeers ==
  \/ \E id \in PromptIds(nextRun) : HandlePrompt(id, FALSE)
  \/ \E op \in DOMAIN pendingRpcs \cup DOMAIN peer.S.pendingRpcs :
        \E outcome \in Outcomes(budget, op) : HandleRpcResponse(op, outcome)
  \/ \E id \in Ids : HandleCancel(id)
  \/ \E op \in DOMAIN timers : RpcTimeout(op)
  \/ Tick
  \/ OnClose
  \/ PeerConnects
  \/ \E id \in Ids : PeerPrompt(id)
  \/ \E op \in DOMAIN pendingRpcs \cup DOMAIN peer.S.pendingRpcs :
        \E outcome \in {PlainResult, closedOutcome} : PeerRpcResponse(op, outcome)
  \/ \E id \in Ids : PeerCancel(id)
  \/ PeerClose

SpecPeers == InitPeers /\ [][NextPeers]_vars

(* ---------------------------------------------------------------------- *)
(* Properties                                                             *)
(* ---------------------------------------------------------------------- *)

IsTerminal(m) == m.type \in {"complete", "error"}
Terminals(w) == {n \in 1..Len(w) : IsTerminal(w[n])}
InProgress(i) == runs[i].pc \notin {"idle", "done"}
SafetyNet(id) == [type |-> "complete", requestId |-> id, result |-> Empty]

(* C1: every promise sendRpc created is settled by at most one call of its   *)
(* resolve/reject, and it has been settled exactly when its entry is no      *)
(* longer in pendingRpcs: no entry is removed unsettled, no settled entry     *)
(* stays, under any interleaving of responses, timeouts and the close.       *)
C1_SettledExactlyOnce ==
  /\ DOMAIN pendingRpcs \subseteq DOMAIN promises
  /\ \A op \in DOMAIN promises :
       /\ promises[op].settles <= 1
       /\ (op \in DOMAIN pendingRpcs) <=> (promises[op].settles = 0)
  /\ \A e \in last.settled : e.first /\ e.rpc \notin DOMAIN pendingRpcs

C1_Witness ==
  /\ last.op = "close"
  /\ last.settled # {}
  /\ \E op \in DOMAIN promises :
       promises[op].settles = 1 /\ op \notin {e.rpc : e \in last.settled}

C3_EventuallyTerminal ==
  \A i \in RunIx :
    (runs[i].pc # "idle") ~> (wsState # "OPEN" \/ Terminals(wire[i]) # {})

C3_Witness ==
  \E i \in RunIx :
    /\ wsState = "OPEN"
    /\ Terminals(wire[i]) # {}
    /\ \E n \in 1..Len(wire[i]) :
         /\ wire[i][n].type = "tool_end"
         /\ wire[i][n].result = <<"Error: ", "RPC timeout: ", "vault_list">>

(* C4 (as stated): the close rejects exactly the pending operations with     *)
(* 'Connection closed' and aborts exactly the registered runs, and from then *)
(* on pendingRpcs and activeRequests stay empty, whatever phase the runs     *)
(* were in.                                                                  *)
C4_Original ==
  /\ [][OnClose =>
          /\ {e.rpc : e \in last'.settled} = DOMAIN pendingRpcs
          /\ \A e \in last'.settled : e.reason = <<"Connection closed">>
          /\ \A k \in RunIx :
               aborted'[k] = (aborted[k] \/ \E id \in DOMAIN activeRequests :
                                              activeRequests[id] = k)]_vars
  /\ [](wsState = "CLOSED" => pendingRpcs = <<>> /\ activeRequests = <<>>)

(* C5: a promise is rejected with 'RPC timeout: <method>' only by the timer  *)
(* of its own sendRpc, naming the method of its rpc_request, not before      *)
(* 30 s have elapsed since the request was issued, and its entry is removed  *)
(* from pendingRpcs in the same step.                                        *)
C5_TimeoutNotEarly ==
  /\ \A e \in last.settled :
       e.reason[1] = "RPC timeout: " =>
         /\ last.op = "timeout"
         /\ ~e.ok
         /\ e.elapsed >= 30000
         /\ e.rpc \notin DOMAIN pendingRpcs
         /\ e.reason = <<"RPC timeout: ", promises[e.rpc].method>>
         /\ \A i \in RunIx : \A n \in 1..Len(wire[i]) :
              (wire[i][n].type = "rpc_request" /\ wire[i][n].id = e.rpc)
                => e.reason[2] = wire[i][n].method
  /\ last.op = "timeout" =>
       \E e \in last.settled : last.settled = {e} /\ e.reason[1] = "RPC timeout: "

C5_Witness ==
  /\ last.op = "timeout"
  /\ \E e \in last.settled :
       /\ e.reason = <<"RPC timeout: ", "vault_list">>
       /\ e.elapsed >= 30000
       /\ e.rpc \notin DOMAIN pendingRpcs

(* C6: an rpc_response whose id has no entry in pendingRpcs is ignored: it   *)
(* settles nothing, changes neither table nor any run, writes nothing and    *)
(* leaves the socket open.                                                   *)
C6_UnknownResponseIgnored ==
  [][\A op \in DOMAIN promises \cup {NoOp} : \A o \in Outcomes(budget, op) :
       (op \notin DOMAIN pendingRpcs /\ HandleRpcResponse(op, o)) =>
          /\ UNCHANGED <<wsState, pendingRpcs, timers, activeRequests, aborted, runs,
                         wire, promises>>
          /\ last'.settled = {}
          /\ last'.wrote = <<>>]_vars

C6_Witness ==
  /\ last.op = "rpc_response"
  /\ last.how = "unknown"
  /\ wsState = "OPEN"
  /\ pendingRpcs # <<>>
  /\ \E op \in DOMAIN promises : promises[op].settles = 1

(* C7 (as stated): a run cancelled by a cancel message ends with a single    *)
(* terminal complete message on the wire whose result is the sentinel         *)
(* 'Cancelled by user'.                                                      *)
C7_Original ==
  \A i \in RunIx :
    (aborted[i] /\ wsState = "OPEN" /\ runs[i].pc = "done") =>
      /\ Cardinality(Terminals(wire[i])) = 1
      /\ \A n \in Terminals(wire[i]) :
           wire[i][n] = [type |-> "complete", requestId |-> runs[i].id,
                         result |-> Cancelled]

(* C8 (as stated): once a cancel for request id R has been processed (a      *)
(* controller registered under R is aborted while the socket is open), no    *)
(* text_delta, tool_start, tool_end or thinking message with requestId R is  *)
(* written any more.                                                         *)
C8_Original ==
  [][\A i \in RunIx, k \in RunIx :
       (aborted[k] /\ wsState = "OPEN" /\ runs[k].id # "-" /\ runs[i].id = runs[k].id) =>
          \A n \in (Len(wire[i]) + 1)..Len(wire'[i]) :
             wire'[i][n].type \notin {"text_delta", "tool_start", "tool_end", "thinking"}]_vars

AllDone(id) ==
  /\ \E i \in RunIx : runs[i].id = id
  /\ \A i \in RunIx : runs[i].id = id => runs[i].pc = "done"

AlreadyAborted(id) == id \in DOMAIN activeRequests /\ aborted[activeRequests[id]]

(* C9: a cancel for a request id all of whose runs have terminated, and a    *)
(* further cancel for a run that is already cancelled, change no state and   *)
(* write nothing, so any number of cancels has the effect of one.            *)
C9_CancelIdempotent ==
  [][\A id \in Ids :
       (HandleCancel(id) /\ (AllDone(id) \/ AlreadyAborted(id))) =>
          /\ UNCHANGED <<wsState, pendingRpcs, timers, activeRequests, aborted, runs,
                         wire, promises>>
          /\ last'.settled = {}
          /\ last'.wrote = <<>>]_vars

C9_Witness ==
  /\ last.op = "cancel"
  /\ last.how = "again"
  /\ \E i \in RunIx : aborted[i] /\ InProgress(i) /\ runs[i].pc = "tool_rpc"

C9_WitnessAfterCompletion ==
  /\ last.op = "cancel"
  /\ last.how = "unknown"
  /\ \A id \in Ids : AllDone(id)

(* C10 (as stated): a prompt whose id is that of a run in progress starts no *)
(* second run and neither replaces nor removes the entry of the run in       *)
(* progress: while the socket is open, every run in progress is the one      *)
(* registered in activeRequests under its id, and no two runs in progress    *)
(* share an id.                                                              *)
C10_Original ==
  wsState = "OPEN" =>
    /\ \A i \in RunIx :
         InProgress(i) =>
           runs[i].id \in DOMAIN activeRequests /\ activeRequests[runs[i].id] = i
    /\ \A i \in RunIx, j \in RunIx :
         (i # j /\ InProgress(i) /\ InProgress(j)) => runs[i].id # runs[j].id

(* Backend responses of the session that ended with stop reason tool_use. *)
ToolUseRounds == IterCfg.rounds - budget.rounds

AgentError(id, code) == [type |-> "error", requestId |-> id, code |-> code]

(* C11: against a backend that answers every iteration with tool_use the run *)
(* never has a stream open after MAX_ITERATIONS responses: it opens exactly  *)
(* MAX_ITERATIONS streams, and once the last of them has ended it has        *)
(* terminated, its only error event being the MAX_ITERATIONS error, written  *)
(* once, right before the complete of the finally block.                     *)
C11_ExactlyMaxIterations ==
  /\ ToolUseRounds <= MAX_ITERATIONS
  /\ runs[1].pc = "streaming" =>
        ToolUseRounds < MAX_ITERATIONS /\ runs[1].iteration = ToolUseRounds + 1
  /\ (ToolUseRounds = MAX_ITERATIONS /\ runs[1].pc \notin {"tool_mcp", "tool_rpc"}) =>
        /\ runs[1].pc = "done"
        /\ ~aborted[1] =>
             LET w == wire[1] IN
             /\ Len(w) >= 2
             /\ w[Len(w) - 1] = AgentError("r1", "MAX_ITERATIONS")
             /\ w[Len(w)] = SafetyNet("r1")
             /\ Cardinality({n \in 1..Len(w) : w[n].type = "error"}) = 1

C11_Witness ==
  /\ ToolUseRounds = MAX_ITERATIONS
  /\ runs[1].pc = "done"
  /\ ~aborted[1]
  /\ Cardinality({n \in 1..Len(wire[1]) : wire[1][n].type = "tool_end"}) = MAX_ITERATIONS
  /\ wire[1][Len(wire[1]) - 1] = AgentError("r1", "MAX_ITERATIONS")

(* C12 (as stated): a run whose agent yielded its complete event (a response *)
(* ended with a stop reason other than tool_use) has written exactly that    *)
(* one agent complete and no error message, at whichever iteration the       *)
(* response came.                                                            *)
C12_Original ==
  (runs[1].pc = "done" /\ ~aborted[1] /\ wsState = "OPEN") =>
    LET w == wire[1]
        agentComplete == {n \in 1..(Len(w) - 1) : w[n].type = "complete"}
    IN agentComplete # {} =>
         /\ Cardinality(agentComplete) = 1
         /\ \A n \in 1..Len(w) : w[n].type # "error"

(* The events of a sequence (yielded events or wire messages) that start or *)
(* end a tool, as <<type, name>>, in order.                                 *)
ToolMarks(w, nameOf(_)) ==
  LET marks == SelectSeq(w, LAMBDA m : m.type \in {"tool_start", "tool_end"})
  IN [n \in 1..Len(marks) |-> <<marks[n].type, nameOf(marks[n])>>]

(* Start/end pairs follow each other: every tool_start is directly followed *)
(* (among the marks) by the tool_end of the same tool, if by anything.       *)
Paired(marks) ==
  \A n \in 1..Len(marks) :
    /\ (n % 2 = 1) => marks[n][1] = "tool_start"
    /\ (n % 2 = 0) => marks[n] = <<"tool_end", marks[n - 1][2]>>

(* C13 (as stated): in the outbound stream of a run the start/end pair of a  *)
(* tool is complete before the pair of the next announced tool begins, for   *)
(* the runs of the tool loop of agent.ts and for the SDK-based runAgent.     *)
C13_Original ==
  /\ \A i \in RunIx : Paired(ToolMarks(wire[i], LAMBDA m : m.toolName))
  /\ Paired(ToolMarks(sdk.yielded, LAMBDA m : m.name))

NonRpc(w) == SelectSeq(w, LAMBDA m : m.type # "rpc_request")

(* What handlePrompt itself writes when its loop is over: nothing yet, the  *)
(* complete of finally, or the AGENT_ERROR of catch and that complete.      *)
Epilogues(id) ==
  {<<>>, <<SafetyNet(id)>>, <<AgentError(id, "AGENT_ERROR"), SafetyNet(id)>>}

(* C14: in every step, for every run that is not cancelled on an open socket, *)
(* the events its agent yields in the step are appended to its wire as one    *)
(* message each, tagged with the run's request id, in the order yielded and   *)
(* after everything written before; besides them only rpc_requests and the    *)
(* closing messages of handlePrompt are written.                              *)
C14_YieldedInOrder ==
  [][~UNCHANGED <<wsState, pendingRpcs, activeRequests, aborted, runs, wire, promises,
                  nextRun, budget, last>> =>
       \A i \in RunIx :
         (wsState' = "OPEN" /\ ~aborted'[i]) =>
            \E tail \in Epilogues(runs'[i].id) :
               NonRpc(wire'[i]) =
                 NonRpc(wire[i])
                   \o [n \in 1..Len(last'.yielded[i]) |->
                         toWire(runs'[i].id, last'.yielded[i][n])]
                   \o tail]_vars

C14_Witness ==
  \E i \in RunIx, j \in RunIx :
    /\ i # j /\ wsState = "OPEN" /\ ~aborted[i]
    /\ Len(last.yielded[i]) = 1
    /\ Len(SelectSeq(wire[i], LAMBDA m : m.type = "text_delta")) = 2
    /\ wire[j] # <<>>

(* The pending operations issued on behalf of run i. *)
PendingOf(i) == {op \in DOMAIN pendingRpcs : pendingRpcs[op].run = i}

(* C15: in the wire of a run, the rpc_request of a vault tool call directly   *)
(* follows the tool_start of that tool; a tool_end of a vault tool directly   *)
(* follows that call's rpc_request, whose promise has been settled and whose  *)
(* entry is gone; and once a terminal message of the run has been written no  *)
(* operation of the run is pending.                                           *)
C15_ToolRpcOrder ==
  \A i \in RunIx :
    LET w == wire[i] IN
    /\ \A n \in 1..Len(w) :
         (w[n].type = "rpc_request" /\ w[n].method = VaultTool) =>
           /\ n > 1
           /\ w[n - 1] = [type |-> "tool_start", requestId |-> runs[i].id,
                          toolName |-> VaultTool]
    /\ \A n \in 1..Len(w) :
         (w[n].type = "tool_end" /\ w[n].toolName = VaultTool) =>
           /\ n > 1
           /\ w[n - 1].type = "rpc_request"
           /\ w[n - 1].method = VaultTool
           /\ w[n - 1].id \notin DOMAIN pendingRpcs
           /\ promises[w[n - 1].id].settles = 1
    /\ Terminals(w) # {} => PendingOf(i) = {}

C15_Witness ==
  \E i \in RunIx :
    /\ wsState = "OPEN"
    /\ Terminals(wire[i]) # {}
    /\ Len(SelectSeq(wire[i], LAMBDA m : m.type = "tool_end" /\ m.toolName = VaultTool)) = 2
    /\ \E n \in 1..Len(wire[i]) :
         wire[i][n].type = "tool_end" /\ wire[i][n].result = <<"ok">>

(* C16: a connection whose token is missing or is not AUTH_TOKEN never has  *)
(* a handler attached nor an entry in connections; its 'connection' event  *)
(* closes it with code 4001, which no authorised connection is closed with; *)
(* no frame of it is handled: no run is started, no promise created or     *)
(* settled, nothing (no pong, no error) is written.                        *)
C16_UnauthorizedNeverHandled ==
  /\ server.token = AUTH_TOKEN => server.closeCode = 0
  /\ server.token # AUTH_TOKEN =>
       /\ ~server.handler
       /\ ~server.listed
       /\ wsState = "OPEN" => Connecting
       /\ ~Connecting => server.closeCode = UNAUTHORIZED
       /\ nextRun = 1
       /\ promises = <<>>
       /\ pendingRpcs = <<>>
       /\ \A i \in RunIx : runs[i] = IdleRun /\ wire[i] = <<>>
       /\ last.op \in {"init", "connection", "frame", "close", "heartbeat"}
       /\ last.wrote = <<>>
       /\ last.settled = {}

C16_Witness ==
  /\ server.token = "null"
  /\ server.closeCode = UNAUTHORIZED
  /\ wsState = "CLOSING"
  /\ last.op = "frame"

(* C17: handling an unparsable frame writes exactly one message, the error  *)
(* with code INVALID_JSON and no requestId, settles nothing, and changes    *)
(* neither pendingRpcs (nor their timers) nor activeRequests nor any run    *)
(* nor the state of the socket: whatever could be handled before it can be  *)
(* handled after it, with the same effect.                                  *)
C17_InvalidJsonOnlyAnswers ==
  [][HandleInvalidJson =>
       /\ last'.wrote = <<[type |-> "error", code |-> "INVALID_JSON"]>>
       /\ last'.settled = {}
       /\ wsState' = "OPEN"
       /\ UNCHANGED <<wsState, pendingRpcs, timers, activeRequests, aborted, runs, wire,
                      promises, nextRun, budget>>]_vars

C17_Witness ==
  /\ last.op = "invalid_json"
  /\ wsState = "OPEN"
  /\ pendingRpcs # <<>>
  /\ \E i \in RunIx : runs[i].pc = "streaming"

(* C18: on an open connection that has its handler, a ping can be handled   *)
(* in every state, whatever runs are in progress and whatever operations    *)
(* are pending; handling it writes exactly one message, the pong, in that   *)
(* same step, sets the time since the last activity to zero, and changes    *)
(* nothing else of the session.                                             *)
C18_PingAnsweredInStep ==
  /\ [](Receiving => ENABLED HandlePing)
  /\ [][HandlePing =>
          /\ last'.wrote = <<[type |-> "pong"]>>
          /\ last'.settled = {}
          /\ server' = [server EXCEPT !.inactiveMs = 0]
          /\ UNCHANGED <<wsState, pendingRpcs, timers, activeRequests, aborted, runs, wire,
                         promises, nextRun, budget>>]_vars

C18_Witness ==
  /\ last.op = "ping"
  /\ last.wrote = <<[type |-> "pong"]>>
  /\ server.inactiveMs = 0
  /\ server.beatMs > 0
  /\ \E i \in RunIx : runs[i].pc = "tool_rpc" /\ PendingOf(i) # {}

(* C20: a run of the heartbeat that finds the last inbound message of a     *)
(* listed connection no older than the liveness window leaves the           *)
(* connection as it is (open, listed, its runs and operations untouched),   *)
(* whatever is in progress; and a connection that checkAlive terminated had *)
(* been silent for longer than the window.                                  *)
C20_ActiveNeverTerminated ==
  /\ [](server.terminated => server.inactiveMs > LIVENESS_WINDOW)
  /\ [][(Heartbeat /\ server.listed /\ server.inactiveMs <= LIVENESS_WINDOW) =>
          /\ server' = [server EXCEPT !.beatMs = 0]
          /\ UNCHANGED <<wsState, pendingRpcs, timers, activeRequests, aborted, runs, wire,
                         promises, nextRun, budget>>]_vars

C20_Witness ==
  /\ last.op = "heartbeat"
  /\ last.how = "alive"
  /\ server.inactiveMs = LIVENESS_WINDOW
  /\ wsState = "OPEN"
  /\ server.listed
  /\ \E i \in RunIx : runs[i].pc = "tool_rpc" /\ PendingOf(i) # {}

(* C19 (as stated): a listed connection is never silent for longer than the *)
(* liveness window plus one heartbeat interval (the next run of the         *)
(* heartbeat terminates it), and once checkAlive has terminated the         *)
(* connection and its close has been handled, every run of the session      *)
(* still in progress has its abort signal set.                              *)
C19_Original ==
  /\ server.listed => server.inactiveMs <= LIVENESS_WINDOW + HEARTBEAT_INTERVAL
  /\ (server.listed /\ server.inactiveMs > LIVENESS_WINDOW) =>
        server.beatMs >= server.inactiveMs - LIVENESS_WINDOW
  /\ (server.terminated /\ wsState = "CLOSED") =>
        \A i \in RunIx : InProgress(i) => aborted[i]

(* C21 (as stated): a run of the SDK-based runAgent that ended after its     *)
(* watchdog aborted it has, as its last event, an error whose code is        *)
(* neither the code of a generic agent error nor a result subtype of the    *)
(* SDK.                                                                      *)
C21_Original ==
  (sdk.pc = "done" /\ sdk.abort = "watchdog") =>
     /\ sdk.yielded # <<>>
     /\ LET e == sdk.yielded[Len(sdk.yielded)]
        IN /\ e.type = "error"
           /\ e.code \notin {"AGENT_ERROR", "error_max_turns"}

FailEvents == {[kind |-> "fail", err |-> e] : e \in {OverloadedError, ConnectionError, OtherError}}

(* A step in which the backend stream of run i fails with ev. *)
Fails(i, ev) ==
  /\ runs[i].pc = "streaming"
  /\ last'.op = "backend"
  /\ runs' = onStreamEvent(wsState, St, i, ev).runs
  /\ wire' = onStreamEvent(wsState, St, i, ev).wire
  /\ last'.yielded = onStreamEvent(wsState, St, i, ev).ev

(* C22 (as stated): when the completion call of a run fails, the run yields  *)
(* in that step exactly one event, an error whose code is API_ERROR_<status> *)
(* when the failure has an HTTP status and AGENT_ERROR otherwise, and the    *)
(* run is over: it has no stream open and never yields again.               *)
C22_Original ==
  [][\A i \in RunIx, ev \in FailEvents :
       Fails(i, ev) =>
         /\ last'.yielded[i] =
              <<[type |-> "error",
                 code |-> IF ev.err.status # NoStatus
                          THEN apiErrorCode(ev.err.status) ELSE "AGENT_ERROR"]>>
         /\ runs'[i].pc = "done"]_vars

(* C23 (as stated): handling a cancel sets the abort signal of every run in  *)
(* progress that has the id of the cancel, leaves the abort signal of every  *)
(* run with another id as it was, and settles no promise.                    *)
C23_Original ==
  [][\A id \in Ids :
       HandleCancel(id) =>
         /\ \A i \in RunIx : (InProgress(i) /\ runs[i].id = id) => aborted'[i]
         /\ \A i \in RunIx : runs[i].id # id => aborted'[i] = aborted[i]
         /\ last'.settled = {}
         /\ UNCHANGED <<pendingRpcs, timers, promises>>]_vars

(* The rpc_request messages among the messages w. *)
RpcRequests(w) == SelectSeq(w, LAMBDA m : m.type = "rpc_request")

(* C24 (as stated): no step makes a run whose abort signal is already set    *)
(* issue an operation (a new promise, a new rpc_request on the wire) or      *)
(* open a backend stream (begin an iteration).                               *)
C24_Original ==
  [][\A i \in RunIx :
       aborted[i] =>
         /\ \A op \in DOMAIN promises' : op[1] = i => op \in DOMAIN promises
         /\ RpcRequests(wire'[i]) = RpcRequests(wire[i])
         /\ runs'[i].iteration = runs[i].iteration]_vars

(* The tool_result entry the tool at position k of the batch of iteration it *)
(* gets when its bridge call is rejected with reason.                        *)
FailedResult(it, k, reason) ==
  [type |-> "tool_result", tool_use_id |-> ToolUseId(it, k),
   content |-> <<"Error: ">> \o reason, is_error |-> TRUE]

C25_WitnessClose ==
  /\ last.op = "close"
  /\ \E i \in RunIx :
       last.yielded[i] = <<[type |-> "tool_end", name |-> VaultTool,
                            result |-> <<"Error: ", "Connection closed">>]>>

(* The user entry u of the history answers the assistant entry a: one        *)
(* tool_result per tool_use block, under its id, in the order of the blocks. *)
Answers(u, a) ==
  /\ a.role = "assistant"
  /\ u.role = "user"
  /\ Len(u.content) = Len(a.content)
  /\ \A k \in 1..Len(a.content) :
       /\ u.content[k].type = "tool_result"
       /\ u.content[k].tool_use_id = a.content[k].id

(* C26: while a run has a backend stream open, its history (after the        *)
(* prompt) is empty at the first iteration and otherwise alternates          *)
(* assistant and user entries, ending with a user entry; every user entry    *)
(* holds exactly one tool_result for each tool_use block of the assistant    *)
(* entry before it, under that block's id and in block order, and nothing    *)
(* else; during a batch the results so far are those of the tools executed   *)
(* so far, in order.                                                         *)
C26_OneResultPerToolUse ==
  \A i \in RunIx :
    LET r == runs[i]
        h == r.messages
    IN /\ r.pc = "streaming" =>
            /\ Len(h) = 2 * (r.iteration - 1)
            /\ \A n \in 1..Len(h) : n % 2 = 0 => Answers(h[n], h[n - 1])
            /\ \A n \in 1..Len(h) : n % 2 = 1 => h[n].role = "assistant" /\ h[n].content # <<>>
       /\ r.pc \in {"tool_rpc", "tool_mcp"} =>
            /\ Len(r.toolResults) = r.toolIdx - 1
            /\ h[Len(h)].role = "assistant"
            /\ \A k \in 1..Len(r.toolResults) :
                 r.toolResults[k].tool_use_id = h[Len(h)].content[k].id

C26_Witness ==
  \E i \in RunIx :
    /\ runs[i].pc = "streaming"
    /\ runs[i].iteration = 2
    /\ Len(runs[i].messages[2].content) = 2
    /\ runs[i].messages[2].content[1].is_error
    /\ ~runs[i].messages[2].content[2].is_error

(* C27: an entry is added to pendingRpcs only under an id that sendRpc has   *)
(* never issued before in the session, so no step replaces an outstanding    *)
(* entry: as long as an id stays in pendingRpcs its entry, its promise and   *)
(* its timer are the ones its sendRpc created (the timer only ages), and    *)
(* each outstanding id was written in exactly one rpc_request.              *)
C27_FreshOperationIds ==
  /\ [](\A op \in DOMAIN pendingRpcs :
          /\ promises[op].settles = 0
          /\ Len(SelectSeq(wire[op[1]], LAMBDA m : m.type = "rpc_request" /\ m.id = op)) <= 1)
  /\ [][/\ \A op \in DOMAIN pendingRpcs' :
             op \notin DOMAIN pendingRpcs => op \notin DOMAIN promises
         /\ \A kept \in DOMAIN pendingRpcs \cap DOMAIN pendingRpcs' :
             /\ pendingRpcs'[kept] = pendingRpcs[kept]
             /\ promises'[kept] = promises[kept]
             /\ timers'[kept] >= timers[kept]]_vars

C27_Witness ==
  /\ Cardinality(DOMAIN pendingRpcs) = 2
  /\ Cardinality(DOMAIN promises) >= 4
  /\ last.op = "rpc_response"
  /\ last.how = "settles"

(* C28 (as stated): every step that writes a message of a run to the         *)
(* connection leaves the time since the last activity at zero, as every      *)
(* step that handles an inbound message does.                                *)
C28_Original ==
  [][(\/ \E i \in RunIx : Len(wire'[i]) > Len(wire[i])
      \/ last'.op \in {"prompt", "rpc_response", "cancel", "ping", "invalid_json"} /\ last' # last)
       => server'.inactiveMs = 0]_vars

(* A step of the 'message' listener: an inbound frame is handled. *)
Inbound ==
  \/ \E id \in PromptIds(nextRun), throws \in BOOLEAN : HandlePrompt(id, throws)
  \/ \E op \in DOMAIN promises \cup {NoOp} : \E outcome \in Outcomes(budget, op) :
        HandleRpcResponse(op, outcome)
  \/ \E id \in Ids : HandleCancel(id)
  \/ HandlePing
  \/ HandleInvalidJson

(* C28 (amended): the time since the last activity is set to zero by every   *)
(* step that handles an inbound frame, and by no other step: apart from the  *)
(* construction of the handler and the passing of time, a step that is not   *)
(* the handling of an inbound frame leaves it as it is, whatever it writes   *)
(* to the connection.                                                        *)
C28_RefreshedByInboundOnly ==
  [][/\ Inbound => server'.inactiveMs = 0
     /\ server'.inactiveMs # server.inactiveMs => (Inbound \/ Elapse \/ OnConnection)]_vars

C28_Witness ==
  /\ last.op = "backend"
  /\ wsState = "OPEN"
  /\ server.listed
  /\ server.inactiveMs > LIVENESS_WINDOW
  /\ \E i \in RunIx :
       /\ last.yielded[i] # <<>>
       /\ wire[i] # <<>>
       /\ wire[i][Len(wire[i])].type = "complete"

(* How many events of type t the SDK-based run has yielded for tool name. *)
Yielded(t, name) ==
  Len(SelectSeq(sdk.yielded, LAMBDA e : e.type = t /\ e.name = name))

(* C29 (as stated): the SDK-based run has never yielded more tool_end than   *)
(* tool_start events for a tool name, and once it has yielded its terminal   *)
(* event it has yielded as many, all of them before the terminal event.      *)
C29_Original ==
  \A name \in ToolNames :
    /\ Yielded("tool_end", name) <= Yielded("tool_start", name)
    /\ sdk.pc = "done" =>
         /\ Yielded("tool_end", name) = Yielded("tool_start", name)
         /\ \A n \in 1..(Len(sdk.yielded) - 1) : ~IsTerminal(sdk.yielded[n])

(* The terminal handler calls the client made for request id. *)
TerminalCalls(id) ==
  SelectSeq(client.calls, LAMBDA c : c.id = id /\ c.handler \in {"onComplete", "onError"})

(* C30: for each request id the client makes at most one terminal handler   *)
(* call (onComplete or onError); a terminal message for an id whose         *)
(* handlers it holds calls the matching handler once and removes them, and  *)
(* a message for an id whose handlers are gone calls no handler.            *)
C30_OneTerminalCall ==
  /\ [](\A n \in 1..MaxPrompts : Len(TerminalCalls(ClientIds[n])) <= 1)
  /\ [][\A msg \in ServerMessages :
          ClientOnMessage(msg) =>
            IF msg.requestId \in client.activeHandlers
            THEN /\ client'.calls = Append(client.calls, [id |-> msg.requestId,
                                                          handler |-> handlerOf(msg.type)])
                 /\ msg.type \in {"complete", "error"} =>
                      msg.requestId \notin client'.activeHandlers
            ELSE client'.calls = client.calls]_vars

C30_Witness ==
  /\ client.terminals = <<"r1", "r1">>
  /\ Len(TerminalCalls("r1")) = 1
  /\ "r2" \in client.activeHandlers

(* C31: a run suspended on an RPC does not block the 'message' listener:    *)
(* while the socket delivers frames, the rpc_response for every pending     *)
(* operation can be handled, and handling it removes the entry and its      *)
(* timer, settles the promise for the first time with the outcome of the    *)
(* response, and lets the run that awaited it continue in the same step.    *)
C31_ResponseAlwaysDispatched ==
  /\ [](\A op \in DOMAIN pendingRpcs :
         (server.handler /\ ~server.terminated /\ wsState # "CLOSED")
            => ENABLED HandleRpcResponse(op, PlainResult))
  /\ [][\A op \in DOMAIN pendingRpcs : \A o \in Outcomes(budget, op) :
          HandleRpcResponse(op, o) =>
            /\ op \notin DOMAIN pendingRpcs'
            /\ op \notin DOMAIN timers'
            /\ \E e \in last'.settled : e.rpc = op /\ e.first /\ e.ok = o.ok
            /\ runs'[pendingRpcs[op].run] # runs[pendingRpcs[op].run]]_vars

C31_Witness ==
  /\ last.op = "rpc_response"
  /\ last.how = "settles"
  /\ \E e \in last.settled : e.first /\ e.ok /\ e.rpc = <<1, 1>>
  /\ runs[1].pc = "sys_instr"
  /\ runs[2].pc = "sys_claude"
  /\ <<2, 1>> \in DOMAIN pendingRpcs

(* C32: sessions are independent.  An rpc_response, a cancel or a close on  *)
(* one connection leaves the pendingRpcs, the timers, the promises, the     *)
(* activeRequests, the abort flags and the runs of the other connection     *)
(* unchanged, whatever ids the frame carries.                               *)
C32_SessionsIndependent ==
  /\ [][((\E op \in DOMAIN pendingRpcs \cup DOMAIN peer.S.pendingRpcs :
             \E o \in {PlainResult, closedOutcome} : PeerRpcResponse(op, o))
          \/ (\E id \in Ids : PeerCancel(id))
          \/ PeerClose)
         => UNCHANGED <<pendingRpcs, timers, promises, activeRequests, aborted, runs, wire>>]_vars
  /\ [][((\E op \in DOMAIN pendingRpcs \cup DOMAIN peer.S.pendingRpcs :
             \E o \in Outcomes(budget, op) : HandleRpcResponse(op, o))
          \/ (\E id \in Ids : HandleCancel(id))
          \/ OnClose)
         => UNCHANGED peer]_vars

(* The second connection was sent a response that names an operation of the *)
(* first, while both connections run a prompt with the same request id; the *)
(* operation of the first is still pending.                                 *)
C32_Witness ==
  /\ peer.last.op = "rpc_response"
  /\ peer.last.rpc \in DOMAIN pendingRpcs
  /\ peer.last.rpc \notin DOMAIN peer.S.promises
  /\ peer.S.pendingRpcs # <<>>
  /\ "r1" \in DOMAIN activeRequests
  /\ "r1" \in DOMAIN peer.S.activeRequests
  /\ ~aborted[activeRequests["r1"]]

(* C33: the interval of the inactivity watchdog is cleared on every way out *)
(* of the SDK-based runAgent: once the generator is done, the interval is   *)
(* not armed and its callback cannot run, however much time passes.         *)
C33_WatchdogCleared ==
  [](sdk.pc = "done" => (~sdk.activityCheck /\ ~ENABLED ActivityCheck))

(* The caller aborted, handlePrompt left its loop at the next event, and    *)
(* the run has since been silent for longer than the inactivity timeout.    *)
C33_Witness ==
  /\ sdk.pc = "done"
  /\ sdk.exit = "return"
  /\ sdk.abort = "caller"
  /\ sdk.elapsed > INACTIVITY_TIMEOUT_MS
  /\ ~sdk.activityCheck

(* The reconnection attempts of the client that are outstanding: the timers *)
(* that have not fired and the connect in progress.                         *)
Outstanding == Len(link.timers) + (IF link.isConnecting THEN 1 ELSE 0)

(* C34 (as stated): after an abnormal close the client has at most one      *)
(* reconnection attempt outstanding, a failed attempt schedules exactly one *)
(* further attempt, reconnectAttempts never exceeds maxReconnectAttempts,   *)
(* and 'MAX_RECONNECTS' is emitted at most once.                            *)
C34_Original ==
  /\ Outstanding <= 1
  /\ link.scheduled <= 1
  /\ link.reconnectAttempts <= maxReconnectAttempts
  /\ link.emitted <= 1

(* The subscriptions the manager made and has not unsubscribed. *)
RECURSIVE subscriptions(_)
subscriptions(g) == IF g = 0 THEN 0 ELSE streams.subs[g] + subscriptions(g - 1)

(* C35: after any sequence of detachStream, attachStream, markComplete and  *)
(* cleanup calls the manager holds at most one stream and at most one of    *)
(* its subscriptions is active: the one on the generator of the stream it   *)
(* holds, and none when it holds no stream.                                 *)
C35_OneStreamOneSubscription ==
  /\ Len(streams.activeStream) <= 1
  /\ subscriptions(MaxStreams) <= 1
  /\ \A g \in Gens :
        streams.subs[g] = 1 <=> /\ streams.activeStream # <<>>
                                /\ streams.activeStream[1].responseGenerator = g
                                /\ streams.activeStream[1].unsubscribe

(* A second detachStream replaced a stream on another generator that had    *)
(* published while it was held.                                             *)
C35_Witness ==
  /\ streams.op = "detachStream"
  /\ streams.activeStream # <<>>
  /\ streams.activeStream[1].responseGenerator = 2
  /\ streams.gens[1].messages > 0
  /\ streams.subs = [g \in Gens |-> IF g = 2 THEN 1 ELSE 0]
  /\ streams.gens[2].messages = 0

(* C36: attachStream(c) hands the held stream back exactly once.  It        *)
(* returns the saved state (base messages, the response messages as last    *)
(* published while detached, the generator, the completion flag) exactly    *)
(* when the held stream's conversation is c, and then holds nothing, so     *)
(* hasActiveStream(c) is false and the next attachStream(c) returns null; a *)
(* call with another id returns null and leaves the held stream as it was.  *)
C36_HandedBackOnce ==
  /\ [](streams.handed <= 1)
  /\ [][\A c \in Convs :
          AttachStream(c) =>
            IF hasActiveStream(streams, c)
            THEN /\ streams'.returned = <<result(streams.activeStream[1])>>
                 /\ ~hasActiveStream(streams', c)
                 /\ attachStream(streams', c).returned = <<>>
            ELSE /\ streams'.returned = <<>>
                 /\ streams'.activeStream = streams.activeStream
                 /\ streams'.subs = streams.subs]_vars

(* The stream of c1 was handed back with the two lists its generator        *)
(* published while it was held, after an attachStream for c2 had returned   *)
(* null.                                                                    *)
C36_Witness ==
  /\ streams.op = "attachStream"
  /\ streams.handed = 1
  /\ streams.returned # <<>>
  /\ streams.returned[1].responseMessages = MaxMessages
  /\ streams.returned[1].isComplete
  /\ streams.activeStream = <<>>

(* C37 (as stated): the stream the manager holds is marked complete only if *)
(* the mutation of its own generator has settled.                           *)
C37_Original ==
  (streams.activeStream # <<>> /\ streams.activeStream[1].isComplete) =>
     streams.gens[streams.activeStream[1].responseGenerator].status = "settled"

(* The last n elements of list, all of it when it is shorter. *)
Newest(list, n) ==
  IF Len(list) <= n THEN list ELSE SubSeq(list, Len(list) - n + 1, Len(list))

(* C38: after any sequence of recordBefore calls EditHistory holds at most  *)
(* maxVersions snapshots per path, and they are the most recently recorded  *)
(* ones of the path, in recording order.                                    *)
C38_NewestSnapshotsKept ==
  edits.created =>
    \A path \in Paths :
      /\ Len(getSnapshots(edits, path)) <= edits.maxVersions
      /\ getSnapshots(edits, path) = Newest(edits.recorded[path], edits.maxVersions)

(* Six snapshots were recorded for p under the default limit: the first is  *)
(* gone, the other five are kept.                                           *)
C38_Witness ==
  /\ edits.maxVersions = DefaultMaxVersions
  /\ Len(edits.recorded["p"]) = DefaultMaxVersions + 1
  /\ Len(edits.snapshots["p"]) = DefaultMaxVersions
  /\ edits.snapshots["p"][1].timestamp = 2

(* C39 (as stated): when a revert returns true the snapshot list of its     *)
(* path is the list the path had when revert was called, cut before the     *)
(* index; when it returns false the list of no path changes.                *)
C39_Original ==
  [][\A k \in 1..MaxReverts : \A ok \in BOOLEAN :
       RevertSettles(k, ok) =>
         IF edits'.returned = "true"
         THEN getSnapshots(edits', edits'.target[1])
                = SubSeq(edits'.prev, 1, edits'.target[2])
         ELSE edits'.snapshots = edits.snapshots]_vars
====
